---- MODULE Spec2Model ----
(***************************************************************************)
(* A model of b-sea/go-server: the telemetry middleware that wraps every   *)
(* request (telemetryMiddleware, telemetryWriter) and the health handlers  *)
(* it dispatches to (healthCheckHandler with its checkService workers).    *)
(*                                                                         *)
(* Every request is a process: it enters the middleware, runs the inner    *)
(* handler of its route, runs the middleware's deferred function and is    *)
(* finished by net/http.  The workers of an aggregate health check are     *)
(* processes of their own that meet the handler on an unbuffered channel.  *)
(***************************************************************************)
EXTENDS Integers, Sequences, FiniteSets, TLC

\* ---------------------------------------------------------------- bounds

\* Requests net/http serves side by side, each on a goroutine of its own.
NumReq == 2
\* Names that configuration may register as health dependencies.
MaxDeps == 2
\* The same, where requests are served side by side.
ConcDeps == 1
\* Calls a user handler makes on its response writer before it ends.
MaxOps == 2
\* Longest byte slice a user handler passes to Write.
MaxWrite == 1
\* Requests the server receives in one run.
MaxRequests == 2
\* Options New is given.
MaxOptions == 2
\* Goroutines (handlers and the workers they spawn) that run side by side
\* when requests are in flight together.
MaxGoroutines == 4

\* ------------------------------------------------------ program constants

StatusOK == 200
StatusNotFound == 404
StatusInternalServerError == 500

healthyStatus == "healthy"
unhealthyStatus == "unhealthy"

\* ------------------------------------------------------------ value sets

Req == 1 .. NumReq

AllNames == <<"db", "cache", "queue", "search", "mail">>
DepNames == {AllNames[i] : i \in 1 .. MaxDeps}
ConcNames == {AllNames[i] : i \in 1 .. ConcDeps}

\* The value HealthCheck returns: nil, or an error.  An error is told by the
\* dependency it comes from (its message) and by how encoding/json treats it:
\*   "plain"   errors.New(...): no exported field, json.Marshal gives {}
\*   "json"    an error with a MarshalJSON of its own (JSONError in the tests)
\*   "badjson" an error whose MarshalJSON fails
NoErr == [type |-> "nil", msg |-> ""]
ErrTypes == {"plain", "json", "badjson"}
ErrorsOf(checker) == {[type |-> t, msg |-> checker] : t \in ErrTypes}

\* Routes a request can be dispatched to.
Kinds ==
    {"health", "user", "ping", "version", "notfound", "dependency"}

\* The aggregate handler that takes the Recorder and hands the checkers to
\* its workers over checkChan.  No route of New dispatches to it, and the
\* registration that would is not part of the source: the route is the one
\* the specification describes, a /health whose aggregate check reports
\* each completed dependency check to the metrics recorder.
VariantKinds == {"healthRecorder"}

\* A correlation ID: where it comes from and, for one the default generator
\* (uuid.NewString) made, which of its calls made it.
NoID == [src |-> "", n |-> 0]
HeaderID == [src |-> "header", n |-> 0]
CustomID == [src |-> "custom", n |-> 0]

\* What the Correlation-ID header of an inbound request may hold.
Headers == {NoID, HeaderID}

\* Generators the server may be configured with: uuid.NewString, or the
\* function given to WithCustomCorrelationID.
Generators == {"uuid", "custom"}

\* Version strings SetVersion may be given.
Versions == {"", "test-123"}

\* The checker objects options carry: the i-th option of a call of New
\* carries a checker of its own.
Ordinal == <<"1", "2", "3", "4">>
CheckerOf(name, i) == name \o "#" \o Ordinal[i]
AllCheckers == {CheckerOf(n, i) : n \in DepNames, i \in 1 .. MaxOptions}

\* Status codes a user handler passes to WriteHeader.
UserCodes == {StatusOK, StatusNotFound, StatusInternalServerError}

VARIABLES
    healthDependencies, \* Server.healthDependencies: name -> checker
    readCorrelationHeader, \* Server.readCorrelationHeader
    newCorrelationID,   \* Server.newCorrelationID: which generator
    issued,             \* calls of the generator so far
    log,                \* the correlation_id fields in the context of Server.log
    inbound,            \* the Correlation-ID header of each request
    target,             \* the name in the path of a /health/{name} request
    matched,            \* a route other than the catch-all matched the request
    correlationID,      \* the middleware's local correlationID
    ctxLogger,          \* the context of the logger in the request's context
    version,            \* Server.version
    constructed,        \* New has returned
    options,            \* the options New has applied, in order
    notFoundHandler,    \* router.NotFoundHandler is not nil
    routes,             \* router.routes: the routes added after the defaults, in order
    pending,            \* the AddHealthDependency option that is being applied
    startedAt,          \* Server.startedAt: 0 is the zero time
    mu,                 \* Server.mu: the call that holds it, "" when free
    lpc,                \* where the calls of Start, Stop and Uptime are
    ret,                \* what Start, Stop and the http.Server's calls returned
    serving,            \* the state of the http.Server
    cancelled,          \* the request's context is cancelled
    env,                \* what the clients send and what the dependencies return
    recovered,          \* the middleware has recovered a panic before
    pc,                 \* where each request is
    kind,               \* the route each request is dispatched to
    verbose,            \* whether the request's query has the verbose flag
    afterPanic,         \* the request began after a recovered panic
    writer,             \* the request's telemetryWriter and the writer it wraps
    panicking,          \* the inner handler ended in a panic
    escaped,            \* a panic left the middleware
    responses,          \* responses net/http completed for the request
    ops,                \* writer calls the user handler has made
    result,             \* the aggregate handler's result struct
    worker,             \* the handler's workers, by dependency name
    offer,              \* the checker the variant handler is sending on checkChan
    received,           \* results the handler has read from its channel
    calls,              \* HealthCheck invocations of the pass, by name
    invoked,            \* the checkers whose HealthCheck the pass invoked
    depErr,             \* the err of the /health/{name} handler
    depChecker,         \* the checker the /health/{name} handler looked up
    logs,               \* log entries written for the request
    metrics             \* Recorder calls made for the request

vars == <<healthDependencies, readCorrelationHeader, newCorrelationID, issued,
          version, constructed, options, pending, notFoundHandler, routes,
          startedAt, mu, lpc, ret, serving,
          cancelled,
          log, inbound, target, matched, correlationID, ctxLogger,
          env, recovered, pc, kind, verbose,
          afterPanic, writer, panicking, escaped, responses, ops, result,
          worker, offer, received, calls, invoked, depErr, depChecker, logs, metrics>>

depVars == <<depErr, depChecker>>
healthVars == <<result, worker, offer, received, calls, invoked, depVars>>
outVars == <<logs, metrics>>
reqVars == <<kind, verbose, afterPanic, inbound, target, matched, cancelled>>
confVars == <<healthDependencies, readCorrelationHeader, newCorrelationID, env,
              version, constructed, options, pending>>
routerVars == <<notFoundHandler, routes>>
srvVars == <<confVars, routerVars>>
lifeVars == <<startedAt, mu, lpc, ret, serving>>
corrVars == <<issued, log, correlationID, ctxLogger>>

\* ------------------------------------------------------------- helpers

EmptyMap == [n \in {} |-> ""]

MapPut(m, k, v) == [x \in (DOMAIN m) \cup {k} |-> IF x = k THEN v ELSE m[x]]

Registered == DOMAIN healthDependencies

\* What a call of checker's HealthCheck may return.
Returns(checker) ==
    {NoErr} \cup {e \in ErrorsOf(checker) : e.type \in env.errTypes}

\* request.URL.Path of a request to route k, with name t in the path of a
\* /health/{name} request.
RawPath(k, t) ==
    CASE k = "health" -> "/health"
      [] k = "healthRecorder" -> "/health"
      [] k = "ping" -> "/ping"
      [] k = "version" -> "/version"
      [] k = "dependency" -> "/health/" \o t
      [] k = "notfound" -> "/missing"
      [] OTHER -> "/user"

\* mux.CurrentRoute(request).GetPathTemplate(): the path the matched route
\* was registered with, and an error for the catch-all route, which is made
\* with NewRoute and has no path; m tells whether a route other than the
\* catch-all matched.
GetPathTemplate(k, t, m) ==
    IF ~m
    THEN [tpl |-> "", err |-> TRUE]
    ELSE [tpl |-> RawPath(k, t), err |-> FALSE]

\* PathOf with no fallback when the route has no template.
PathOfTemplate(k, t, m) == GetPathTemplate(k, t, m).tpl

\* The path label of the middleware: the route's template, and
\* request.URL.Path when the route has none.
PathOf(k, t, m) ==
    IF GetPathTemplate(k, t, m).err THEN RawPath(k, t)
    ELSE GetPathTemplate(k, t, m).tpl

\* ------------------------------------------------- error detail (encoding)

\* A Go string as a JSON string literal.  The names and messages of the model
\* hold no character encoding/json escapes.
Quote(s) == "\"" \o s \o "\""

\* json.Marshal(err): whether it succeeded, and the JSON text it produced.
EmptyObject == "{}"

Marshal(err) ==
    CASE err.type = "plain" -> [ok |-> TRUE, data |-> EmptyObject]
      [] err.type = "json" ->
             [ok |-> TRUE, data |-> "{\"details\":" \o Quote(err.msg) \o "}"]
      [] OTHER -> [ok |-> FALSE, data |-> ""]

\* err.Error()
ErrorText(err) == err.msg

\* An entry of the Dependencies map is a Go string (form "string", value the
\* string) or an error encoding/json can marshal (form "object", value the
\* JSON text its MarshalJSON gives).  The entry of a healthy dependency is
\* the string "healthy".
HealthyEntry == [form |-> "string", value |-> healthyStatus]

\* The JSON text encoding/json writes for an entry.
JSONValue(entry) ==
    IF entry.form = "string" THEN Quote(entry.value) ELSE entry.value

\* encoding/json writes the members of a map sorted by key: the names of the
\* model in that order.
SortedNames == <<"cache", "db", "mail", "queue", "search">>

RECURSIVE JSONMembers(_, _)
JSONMembers(deps, i) ==
    IF i > Len(SortedNames) THEN ""
    ELSE LET n == SortedNames[i]
             rest == JSONMembers(deps, i + 1)
         IN  IF n \notin DOMAIN deps THEN rest
             ELSE Quote(n) \o ":" \o JSONValue(deps[n])
                      \o (IF rest = "" THEN "" ELSE "," \o rest)

\* The JSON object of a map[string]any.
JSONMap(deps) == "{" \o JSONMembers(deps, 1) \o "}"

\* The entry the aggregate handler stores for an error: the error itself (its
\* JSON object) unless marshalling fails or gives {}, then its text.
Detail(err) ==
    IF ~Marshal(err).ok \/ Marshal(err).data = EmptyObject
    THEN [form |-> "string", value |-> ErrorText(err)]
    ELSE [form |-> "object", value |-> Marshal(err).data]

\* The entry the variant handler stores for an error: always its text.
TextDetail(err) == [form |-> "string", value |-> ErrorText(err)]

\* ------------------------------------------------------ telemetryWriter

\* A fresh telemetryWriter around the writer net/http hands to the handler:
\* StatusCode and Size are its fields; the others are the state of the writer
\* underneath: sent (the status line on the wire, 0 for none yet), header (the
\* header map), wire (the headers that went out with the status line), body
\* (bytes written) and content (what was written); trace lists the
\* WriteHeader and Write calls made on it, with the code or length.
NewWriter ==
    [StatusCode |-> StatusOK, Size |-> 0,
     sent |-> 0, body |-> 0, header |-> EmptyMap, wire |-> EmptyMap,
     content |-> <<>>, trace |-> <<>>]

\* telemetryWriter.WriteHeader: records the code and passes it on; the writer
\* underneath sends the status line and the headers on the first call and
\* drops later ones.
WriteHeader(w, statusCode) ==
    [w EXCEPT !.StatusCode = statusCode,
              !.sent = IF @ = 0 THEN statusCode ELSE @,
              !.wire = IF w.sent = 0 THEN w.header ELSE @,
              !.trace = Append(@, [op |-> "WriteHeader", arg |-> statusCode])]

\* A byte slice: what it holds and its length.
RECURSIVE Fill(_)
Fill(n) == IF n = 0 THEN "" ELSE "x" \o Fill(n - 1)

Bytes(n) == [form |-> "text", value |-> Fill(n)]

\* The writers Server.ServeHTTP is called with: the response of the
\* http.Server that Start runs, and the httptest.ResponseRecorder of a caller
\* that serves a request without a listener.
Underneath == {"response", "recorder"}

\* http.DetectContentType for the bytes the handlers of the model write:
\* text with no signature of a markup, image or archive format.
DetectContentType(p) == "text/plain; charset=utf-8"

\* Whether the writer underneath takes the content type from the bytes of
\* this Write.  The recorder does on a Write that no WriteHeader preceded,
\* when the header map has no Content-Type.  The response does at the first
\* body bytes, with or without a WriteHeader before them, when the headers
\* it is about to send have none.
Sniffs(w, p, under) ==
    CASE under = "recorder" ->
             w.sent = 0 /\ "Content-Type" \notin DOMAIN w.header
      [] OTHER ->
             /\ w.body = 0
             /\ Len(p.value) > 0
             /\ "Content-Type" \notin DOMAIN (IF w.sent = 0 THEN w.header ELSE w.wire)

\* telemetryWriter.Write: adds len(p) to Size and passes p on; the writer
\* underneath sends 200 and the headers first when no status line has been
\* sent, with the content type it detected when the handler set none.  The
\* recorder stores the detected type in the header map it hands out, the
\* response adds it to the headers it sends.
Write(w, p, under) ==
    [w EXCEPT !.Size = @ + Len(p.value),
              !.sent = IF @ = 0 THEN StatusOK ELSE @,
              !.header = IF Sniffs(w, p, under) /\ under = "recorder"
                         THEN MapPut(@, "Content-Type", <<DetectContentType(p)>>)
                         ELSE @,
              !.wire = LET out == IF w.sent = 0 THEN w.header ELSE @
                       IN  IF Sniffs(w, p, under)
                           THEN MapPut(out, "Content-Type", <<DetectContentType(p)>>)
                           ELSE out,
              !.body = @ + Len(p.value),
              !.content = Append(@, [form |-> p.form, value |-> p.value]),
              !.trace = Append(@, [op |-> "Write", arg |-> Len(p.value)])]

\* writer.Header().Add(key, value)
HeaderAdd(w, key, value) ==
    [w EXCEPT !.header = MapPut(@, key, IF key \in DOMAIN @
                                        THEN Append(@[key], value)
                                        ELSE <<value>>)]

\* Header().Set(key, value): the key's values are replaced by the one value.
HeaderSet(w, key, value) ==
    [w EXCEPT !.header = MapPut(@, key, <<value>>)]

\* Header.Get(key): the first of the key's values, "" when the header has
\* no value for the key.
HeaderGet(header, key) ==
    IF key \in DOMAIN header /\ Len(header[key]) > 0 THEN header[key][1] ELSE ""

\* ------------------------------------------------------------ initial state

NoWorker == [state |-> "none", name |-> "", checker |-> "", ctx |-> 0, err |-> NoErr]
NoResult == [Status |-> "", Dependencies |-> EmptyMap]

IdleWorkers == [n \in DepNames |-> NoWorker]
IdleCalls == [n \in DepNames |-> 0]

InitRequests ==
    /\ recovered = FALSE
    /\ pc = [r \in Req |-> "idle"]
    /\ kind = [r \in Req |-> "user"]
    /\ verbose = [r \in Req |-> FALSE]
    /\ afterPanic = [r \in Req |-> FALSE]
    /\ inbound = [r \in Req |-> NoID]
    /\ target = [r \in Req |-> ""]
    /\ cancelled = [r \in Req |-> FALSE]
    /\ matched = [r \in Req |-> FALSE]
    /\ issued = 0
    /\ log = <<>>
    /\ correlationID = [r \in Req |-> NoID]
    /\ ctxLogger = [r \in Req |-> <<>>]
    /\ writer = [r \in Req |-> NewWriter]
    /\ panicking = [r \in Req |-> FALSE]
    /\ escaped = [r \in Req |-> FALSE]
    /\ responses = [r \in Req |-> 0]
    /\ ops = [r \in Req |-> 0]
    /\ result = [r \in Req |-> NoResult]
    /\ worker = [r \in Req |-> IdleWorkers]
    /\ offer = [r \in Req |-> ""]
    /\ received = [r \in Req |-> 0]
    /\ calls = [r \in Req |-> IdleCalls]
    /\ invoked = [r \in Req |-> {}]
    /\ depErr = [r \in Req |-> NoErr]
    /\ depChecker = [r \in Req |-> ""]
    /\ logs = [r \in Req |-> <<>>]
    /\ metrics = [r \in Req |-> <<>>]

\* The option AddHealthDependency(name, checker), as New applies it.
AddDependencyOption(name, checker) ==
    [opt |-> "AddHealthDependency", name |-> name, arg |-> checker]

\* The option SetVersion(v), as New applies it.
SetVersionOption(v) == [opt |-> "SetVersion", name |-> "", arg |-> v]

\* The options ReadCorrelationHeader() and WithCustomCorrelationID(fn).
ReadCorrelationHeaderOption ==
    [opt |-> "ReadCorrelationHeader", name |-> "", arg |-> ""]
WithCustomCorrelationIDOption(fn) ==
    [opt |-> "WithCustomCorrelationID", name |-> "", arg |-> fn]

\* No option is being applied.
NoOption == [opt |-> "", name |-> "", arg |-> ""]

\* The correlation options a server with these two fields was made with:
\* New itself stores false and uuid.NewString.
CorrelationOptions(read, generator) ==
    (IF read THEN <<ReadCorrelationHeaderOption>> ELSE <<>>)
        \o (IF generator # "uuid"
            THEN <<WithCustomCorrelationIDOption(generator)>> ELSE <<>>)

\* One AddHealthDependency option for every name of S, each with the checker
\* of that dependency.
OptionsFor(S) ==
    LET names == SelectSeq(AllNames, LAMBDA n : n \in S)
    IN  [i \in 1 .. Len(names) |-> AddDependencyOption(names[i], names[i])]

\* The calls of the server's lifecycle methods the model follows.
LifeCalls == {"Start", "Stop", "Uptime"}

\* Nothing has called Start, Stop or Uptime: startedAt is the zero time New
\* stored, the mutex is free and the http.Server has not listened.
InitLifecycle ==
    /\ startedAt = 0
    /\ mu = ""
    /\ lpc = [c \in LifeCalls |-> "idle"]
    /\ ret = [c \in {"Start", "Stop", "ListenAndServe", "Shutdown", "Uptime"} |-> "none"]
    /\ serving = "new"

\* The route without a matcher that prepareHTTPServe adds: it matches every
\* request.
CatchAllRoute == "*"

\* The catch-all routes of the router.
catchAll == Len(SelectSeq(routes, LAMBDA route : route = CatchAllRoute))

\* The routes /health/<name> that the AddHealthDependency options of New add
\* for the names of S, in the order of the options.
RoutesFor(S) == SelectSeq(AllNames, LAMBDA n : n \in S)

\* The router as New leaves it, given options for the names of S:
\* NotFoundHandler is nil and there is no catch-all route.
InitRouter(S) ==
    /\ notFoundHandler = FALSE
    /\ routes = RoutesFor(S)

\* The router after prepareHTTPServe has run once, in Start or in the
\* ServeHTTP of an earlier request: the catch-all route is its last route.
Prepared(S) ==
    /\ notFoundHandler = TRUE
    /\ routes = Append(RoutesFor(S), CatchAllRoute)

\* New has returned, with one AddHealthDependency option applied for each
\* name of S, the correlation options of its two fields, and no version set.
Constructed(S) ==
    /\ healthDependencies = [n \in S |-> n]
    /\ options = OptionsFor(S)
                     \o CorrelationOptions(readCorrelationHeader, newCorrelationID)
    /\ pending = NoOption
    /\ version = ""
    /\ constructed = TRUE
    /\ InitLifecycle

\* New with its options applied: any subset of the names is registered, each
\* name bound to the checker of that dependency.
InitServer ==
    \E S \in SUBSET DepNames : Constructed(S) /\ InitRouter(S)

\* Clients that send one request at a time, without a Correlation-ID header,
\* to a server made with WithCustomCorrelationID.
Init ==
    /\ readCorrelationHeader = FALSE
    /\ newCorrelationID = "custom"
    /\ InitServer
    /\ env = [inFlight |-> 1, routes |-> Kinds, verbose |-> BOOLEAN,
               errTypes |-> ErrTypes, headers |-> {NoID},
               panics |-> TRUE, late |-> FALSE]
    /\ InitRequests

\* Clients that keep /health requests in flight side by side, and
\* dependencies whose errors are plain ones: c handlers with one worker per
\* registered dependency each.
InitConc ==
    /\ readCorrelationHeader = FALSE
    /\ newCorrelationID = "custom"
    /\ \E S \in SUBSET ConcNames : \E c \in 1..NumReq :
           /\ c * (1 + Cardinality(S)) <= MaxGoroutines
           /\ Constructed(S)
           /\ Prepared(S)
           /\ env = [inFlight |-> c, routes |-> {"health"}, verbose |-> {TRUE},
                      errTypes |-> {"plain"}, headers |-> {NoID},
                      panics |-> FALSE, late |-> FALSE]
    /\ InitRequests

\* New is about to apply its options, ReadCorrelationHeader and
\* WithCustomCorrelationID among them or not: the two fields are as New
\* stores them.  Clients will send requests to /ping and to unmatched paths
\* one at a time, with or without a Correlation-ID header.
InitCorr ==
    /\ healthDependencies = EmptyMap
    /\ options = <<>>
    /\ pending = NoOption
    /\ version = ""
    /\ constructed = FALSE
    /\ InitLifecycle
    /\ InitRouter({})
    /\ readCorrelationHeader = FALSE
    /\ newCorrelationID = "uuid"
    /\ env = [inFlight |-> 1, routes |-> {"ping", "notfound"},
               verbose |-> {FALSE}, errTypes |-> {}, headers |-> Headers,
               panics |-> FALSE, late |-> FALSE]
    /\ InitRequests

\* Clients that call Server.ServeHTTP for /ping side by side on a server New
\* has just returned, as a test does with httptest and no Start.
InitServe ==
    /\ readCorrelationHeader = FALSE
    /\ newCorrelationID = "custom"
    /\ Constructed({})
    /\ InitRouter({})
    /\ env = [inFlight |-> NumReq, routes |-> {"ping"}, verbose |-> {FALSE},
               errTypes |-> {}, headers |-> {NoID}, panics |-> FALSE,
               late |-> FALSE]
    /\ InitRequests

\* New is about to apply its options: nothing is registered, no version is
\* set, and the fields are as New stores them.  The callers of the server
\* also apply options to it after New has returned, beside the requests.
InitCfg ==
    /\ healthDependencies = EmptyMap
    /\ options = <<>>
    /\ pending = NoOption
    /\ version = ""
    /\ constructed = FALSE
    /\ InitRouter({})
    /\ InitLifecycle
    /\ readCorrelationHeader = FALSE
    /\ newCorrelationID = "uuid"
    /\ env = [inFlight |-> 1, routes |-> {"health", "dependency", "version"},
               verbose |-> BOOLEAN, errTypes |-> {"plain"}, headers |-> {NoID},
               panics |-> FALSE, late |-> TRUE]
    /\ InitRequests

\* ---------------------------------------------------- New and its options

\* The state of the requests, which configuration leaves alone.
requestVars ==
    <<corrVars, recovered, pc, reqVars, writer, panicking, escaped, responses,
      ops, healthVars, outVars>>

\* An option can be applied: New applies its options one after the other
\* before it returns the server, and an Option is a function a caller can
\* apply to the server afterwards as well (env.late), on a goroutine of its
\* own, with no lock.
Applies ==
    /\ constructed => env.late
    /\ pending = NoOption
    /\ Len(options) < MaxOptions

\* The requests whose handler is reading s.healthDependencies: the lookup of
\* the /health/{name} handler, and the two range loops of the aggregate
\* handler, the first from the handler's start on and the second when it
\* begins with nothing to receive and between the receives of its results.
MapReaders ==
    {r \in Req : \/ pc[r] \in {"dep_start", "h_start", "h_spawn"}
                 \/ /\ pc[r] = "h_collect"
                    /\ \/ \E n \in DepNames : worker[r][n].state = "send"
                       \/ received[r] = Cardinality(Registered)}

\* AddHealthDependency(name, checker) begins: AddHandler adds the route
\* /health/<name> with dependencyHealthCheckHandler(name) to the router.
AddHandler(name, checker) ==
    /\ Applies
    /\ routes' = Append(routes, name)
    /\ pending' = AddDependencyOption(name, checker)
    /\ UNCHANGED <<healthDependencies, readCorrelationHeader, newCorrelationID,
                   env, version, constructed, options, notFoundHandler,
                   lifeVars, requestVars>>

\* AddHealthDependency with the first checker of a name kept.
AddHealthDependencyKeepsFirst(name, checker) ==
    /\ pending = AddDependencyOption(name, checker)
    /\ healthDependencies' =
           IF name \in Registered THEN healthDependencies
           ELSE MapPut(healthDependencies, name, checker)
    /\ options' = Append(options, pending)
    /\ pending' = NoOption
    /\ UNCHANGED <<readCorrelationHeader, newCorrelationID, env, version,
                   constructed, lifeVars, requestVars, routerVars>>

\* AddHealthDependency(name, checker) ends:
\* server.healthDependencies[name] = checker.  The write takes no lock; an
\* entry it adds while a handler ranges over the map is produced by the range
\* or skipped, as if the write came after the loop.
AddHealthDependency(name, checker) ==
    /\ pending = AddDependencyOption(name, checker)
    /\ healthDependencies' = MapPut(healthDependencies, name, checker)
    /\ options' = Append(options, pending)
    /\ pending' = NoOption
    /\ UNCHANGED <<readCorrelationHeader, newCorrelationID, env, version,
                   constructed, lifeVars, requestVars, routerVars>>

\* The write of AddHealthDependency meets the read of a handler: the Go
\* runtime may find the map being written while it is read or ranged over,
\* and ends the process (fatal error: concurrent map read and map write).
ConcurrentMapWrite ==
    /\ pending # NoOption
    /\ MapReaders # {}
    /\ pc' = [q \in Req |-> "crashed"]
    /\ UNCHANGED <<srvVars, lifeVars, corrVars, recovered, reqVars, writer, panicking,
                   escaped, responses, ops, healthVars, outVars>>

\* SetVersion(v) is applied: the version is stored unless it is empty.
SetVersion(v) ==
    /\ Applies
    /\ version' = IF v = "" THEN version ELSE v
    /\ options' = Append(options, SetVersionOption(v))
    /\ UNCHANGED <<healthDependencies, readCorrelationHeader, newCorrelationID,
                   env, constructed, pending, lifeVars, requestVars, routerVars>>

\* ReadCorrelationHeader() is applied.
ReadCorrelationHeader ==
    /\ Applies
    /\ readCorrelationHeader' = TRUE
    /\ options' = Append(options, ReadCorrelationHeaderOption)
    /\ UNCHANGED <<healthDependencies, newCorrelationID, env, version, constructed,
                   pending, lifeVars, requestVars, routerVars>>

\* WithCustomCorrelationID(fn) is applied.
WithCustomCorrelationID(fn) ==
    /\ Applies
    /\ newCorrelationID' = fn
    /\ options' = Append(options, WithCustomCorrelationIDOption(fn))
    /\ UNCHANGED <<healthDependencies, readCorrelationHeader, env, version,
                   constructed, pending, lifeVars, requestVars, routerVars>>

\* New returns the server, its options applied.
New ==
    /\ ~constructed
    /\ pending = NoOption
    /\ constructed' = TRUE
    /\ UNCHANGED <<healthDependencies, readCorrelationHeader, newCorrelationID,
                   env, version, options, pending, lifeVars, requestVars, routerVars>>

\* New applying its options is over; clients send /health requests one at a
\* time while Start, Stop and Uptime are called, each on a goroutine of its
\* own.
InitLife ==
    /\ readCorrelationHeader = FALSE
    /\ newCorrelationID = "custom"
    /\ Constructed({})
    /\ InitRouter({})
    /\ env = [inFlight |-> 1, routes |-> {"health"}, verbose |-> {FALSE},
               errTypes |-> {}, headers |-> {NoID}, panics |-> FALSE,
               late |-> FALSE]
    /\ InitRequests

\* ----------------------------------------------- Start, Stop and Uptime

\* Errors ListenAndServe returns besides http.ErrServerClosed: the listen
\* fails (the port is taken), or Accept fails while serving.
ListenErrors == {"listen error"}
ServeErrors == {"accept error"}

\* Errors Shutdown returns: the error of closing a listener, or the
\* context's, when connections are still active after a minute.
CloseErrors == {"close error"}
ShutdownErrors == {"context deadline exceeded"} \cup CloseErrors

\* StartResult with the error of ListenAndServe returned as it is.
StartResultRaw(err) == err

\* What Start returns for the error ListenAndServe returned.
StartResult(err) == IF err = "ErrServerClosed" THEN "nil" ELSE err

\* Start logs and calls prepareHTTPServe, which reads
\* s.router.NotFoundHandler: when it is not nil the handler of the http.Server
\* is set and Start goes on.
StartPrepare ==
    /\ lpc["Start"] = "idle"
    /\ ret["Start"] = "none"
    /\ lpc' = [lpc EXCEPT !["Start"] = IF notFoundHandler THEN "lock" ELSE "route"]
    /\ UNCHANGED <<srvVars, startedAt, mu, ret, serving, requestVars>>

\* prepareHTTPServe in Start, having read nil: the catch-all route is added
\* to the router and its handler is stored as NotFoundHandler.
StartAddRoute ==
    /\ lpc["Start"] = "route"
    /\ notFoundHandler' = TRUE
    /\ routes' = Append(routes, CatchAllRoute)
    /\ lpc' = [lpc EXCEPT !["Start"] = "lock"]
    /\ UNCHANGED <<confVars, startedAt, mu, ret, serving, requestVars>>

\* s.mu.Lock() in Start.
StartLock ==
    /\ lpc["Start"] = "lock"
    /\ mu = ""
    /\ mu' = "Start"
    /\ lpc' = [lpc EXCEPT !["Start"] = "write"]
    /\ UNCHANGED <<srvVars, startedAt, ret, serving, requestVars>>

\* s.startedAt = time.Now()
StartWrite ==
    /\ lpc["Start"] = "write"
    /\ startedAt' = 1
    /\ lpc' = [lpc EXCEPT !["Start"] = "unlock"]
    /\ UNCHANGED <<srvVars, mu, ret, serving, requestVars>>

\* s.mu.Unlock() in Start.
StartUnlock ==
    /\ lpc["Start"] = "unlock"
    /\ mu' = ""
    /\ lpc' = [lpc EXCEPT !["Start"] = "listen"]
    /\ UNCHANGED <<srvVars, startedAt, ret, serving, requestVars>>

\* s.http.ListenAndServe() begins: after Shutdown it returns ErrServerClosed
\* at once; otherwise it listens, or fails to, and Start returns the error.
StartListen(err) ==
    /\ lpc["Start"] = "listen"
    /\ IF serving = "closed"
       THEN /\ err = "ErrServerClosed"
            /\ ret' = [ret EXCEPT !["ListenAndServe"] = err,
                                  !["Start"] = StartResult(err)]
            /\ lpc' = [lpc EXCEPT !["Start"] = "done"]
            /\ UNCHANGED serving
       ELSE IF err = "nil"
       THEN /\ serving' = "listening"
            /\ lpc' = [lpc EXCEPT !["Start"] = "serve"]
            /\ UNCHANGED ret
       ELSE /\ err \in ListenErrors
            /\ ret' = [ret EXCEPT !["ListenAndServe"] = err,
                                  !["Start"] = StartResult(err)]
            /\ lpc' = [lpc EXCEPT !["Start"] = "done"]
            /\ UNCHANGED serving
    /\ UNCHANGED <<srvVars, startedAt, mu, requestVars>>

\* ListenAndServe returns while serving: ErrServerClosed once Shutdown was
\* called, or the error of a failed Accept; Start returns.
StartServe(err) ==
    /\ lpc["Start"] = "serve"
    /\ IF serving = "closed" THEN err = "ErrServerClosed" ELSE err \in ServeErrors
    /\ ret' = [ret EXCEPT !["ListenAndServe"] = err, !["Start"] = StartResult(err)]
    /\ lpc' = [lpc EXCEPT !["Start"] = "done"]
    /\ UNCHANGED <<srvVars, startedAt, mu, serving, requestVars>>

\* Stop logs; s.mu.Lock().
StopLock ==
    /\ lpc["Stop"] = "idle"
    /\ ret["Stop"] = "none"
    /\ mu = ""
    /\ mu' = "Stop"
    /\ lpc' = [lpc EXCEPT !["Stop"] = "write"]
    /\ UNCHANGED <<srvVars, startedAt, ret, serving, requestVars>>

\* s.startedAt = time.Time{}
StopWrite ==
    /\ lpc["Stop"] = "write"
    /\ startedAt' = 0
    /\ lpc' = [lpc EXCEPT !["Stop"] = "unlock"]
    /\ UNCHANGED <<srvVars, mu, ret, serving, requestVars>>

\* s.mu.Unlock() in Stop.
StopUnlock ==
    /\ lpc["Stop"] = "unlock"
    /\ mu' = ""
    /\ lpc' = [lpc EXCEPT !["Stop"] = "shutdown"]
    /\ UNCHANGED <<srvVars, startedAt, ret, serving, requestVars>>

\* What a Shutdown that is polling returns in the end, by the position of
\* Stop: the error of closing the listener once the connections are idle, or
\* the context's error when connections the listener took are still active
\* after the minute Stop gives it.  The connections are not state of the
\* model: which of the two happens is left open.
ShutdownResults(at) ==
    CASE at = "poll" -> {"nil"}
      [] at = "poll_open" -> {"nil", "context deadline exceeded"}
      [] at = "poll_lnerr" -> CloseErrors \cup {"context deadline exceeded"}
      [] OTHER -> {}

\* s.http.Shutdown(ctx) begins: the server is marked as shutting down and its
\* listeners are closed, which ends ListenAndServe with ErrServerClosed;
\* lnerr is the error of closing a listener that was open.
StopShutdownClose(lnerr) ==
    /\ lpc["Stop"] = "shutdown"
    /\ lnerr \in {"nil"} \cup (IF serving = "listening" THEN CloseErrors ELSE {})
    /\ serving' = "closed"
    /\ lpc' = [lpc EXCEPT !["Stop"] =
           IF serving # "listening" THEN "poll"
           ELSE IF lnerr = "nil" THEN "poll_open" ELSE "poll_lnerr"]
    /\ UNCHANGED <<srvVars, startedAt, mu, ret, requestVars>>

\* Shutdown has polled until the connections were idle or the context was
\* done, and Stop returns what Shutdown returned.
StopShutdown(err) ==
    /\ err \in ShutdownResults(lpc["Stop"])
    /\ ret' = [ret EXCEPT !["Shutdown"] = err, !["Stop"] = err]
    /\ lpc' = [lpc EXCEPT !["Stop"] = "done"]
    /\ UNCHANGED <<srvVars, startedAt, mu, serving, requestVars>>

\* What a read of s.startedAt made without s.mu may see: the field as it is,
\* and, racing with the write of a Start or a Stop that holds the mutex, the
\* value that call is writing.
Reads ==
    {startedAt} \cup (IF lpc["Start"] = "write" THEN {1} ELSE {})
                \cup (IF lpc["Stop"] = "write" THEN {0} ELSE {})

\* What Uptime returns for the value its IsZero read and the value its
\* time.Since read: 0 for the zero time, the time elapsed since a start, and
\* the largest Duration for a zero time read by time.Since.
UptimeValue(t, u) ==
    IF t = 0 THEN "0" ELSE IF u = 0 THEN "max" ELSE "elapsed"

\* Uptime, called by a goroutine of its own: s.startedAt.IsZero() reads the
\* field, and 0 is returned when it is the zero time.
UptimeIsZero(t) ==
    /\ lpc["Uptime"] = "idle"
    /\ t \in Reads
    /\ lpc' = [lpc EXCEPT !["Uptime"] = IF t = 0 THEN "idle" ELSE "since"]
    /\ ret' = [ret EXCEPT !["Uptime"] = IF t = 0 THEN UptimeValue(t, t) ELSE "none"]
    /\ UNCHANGED <<srvVars, startedAt, mu, serving, requestVars>>

\* time.Since(s.startedAt) reads the field again, and Uptime returns.
UptimeSince(u) ==
    /\ lpc["Uptime"] = "since"
    /\ u \in Reads
    /\ lpc' = [lpc EXCEPT !["Uptime"] = "idle"]
    /\ ret' = [ret EXCEPT !["Uptime"] = UptimeValue(1, u)]
    /\ UNCHANGED <<srvVars, startedAt, mu, serving, requestVars>>

\* ------------------------------------------------- telemetry middleware

InFlight == {q \in Req : pc[q] # "idle"}

\* The router's match, made before the middleware runs: whether a route
\* other than the catch-all takes the request.  The router tries its routes
\* in the order they were added and the first that matches wins: the routes
\* New adds by default come first, and /health/<name> is taken by the route
\* AddHandler added for the name unless a catch-all route precedes it.
Match(k, t) ==
    /\ k # "notfound"
    /\ k = "dependency" =>
           \E i \in 1 .. Len(routes) :
               /\ routes[i] = t
               /\ \A j \in 1 .. i - 1 : routes[j] # CatchAllRoute

\* The first position of the handler mux dispatches the request to: the
\* handler of the route that matched, and the catch-all route's http.NotFound
\* when none did.
Entry(k, m) ==
    CASE ~m -> "notfound"
      [] k = "health" -> "h_start"
      [] k = "healthRecorder" -> "v_start"
      [] k = "ping" -> "ping"
      [] k = "version" -> "version"
      [] k = "dependency" -> "dep_start"
      [] OTHER -> "user"

\* The requests that are inside Server.ServeHTTP and have not begun the
\* middleware's work.
Admitted == {q \in Req : pc[q] \in {"route", "routed", "mw"}}

\* Server.ServeHTTP calls prepareHTTPServe, which reads
\* s.router.NotFoundHandler with no lock held and finds it nil.
PrepareHTTPServe(r) ==
    /\ constructed
    /\ pc[r] = "idle"
    /\ \A q \in Req : q < r => pc[q] # "idle"
    /\ Cardinality(InFlight) < env.inFlight
    /\ issued + Cardinality(Admitted) < MaxRequests
    /\ ~notFoundHandler
    /\ pc' = [pc EXCEPT ![r] = "route"]
    /\ UNCHANGED <<srvVars, lifeVars, corrVars, recovered, reqVars, writer, panicking,
                   escaped, responses, ops, healthVars, outVars>>

\* prepareHTTPServe, having read nil: s.router.NewRoute() adds the catch-all
\* route with http.NotFound as its handler, and that handler is stored as
\* NotFoundHandler; s.http.Handler is set to the router.
AddNotFoundRoute(r) ==
    /\ pc[r] = "route"
    /\ notFoundHandler' = TRUE
    /\ routes' = Append(routes, CatchAllRoute)
    /\ pc' = [pc EXCEPT ![r] = "routed"]
    /\ UNCHANGED <<confVars, lifeVars, corrVars, recovered, reqVars, writer, panicking,
                   escaped, responses, ops, healthVars, outVars>>

\* A request reaches the middleware, prepareHTTPServe having found
\* NotFoundHandler set or having set it: the start time and the path label
\* are taken, the telemetryWriter is allocated with status 200 and size 0,
\* and the deferred function is registered.
MwEnter(r, k, v, h, t) ==
    /\ constructed
    /\ \/ /\ pc[r] = "idle"
          /\ notFoundHandler
          /\ \A q \in Req : q < r => pc[q] # "idle"
          /\ Cardinality(InFlight) < env.inFlight
       \/ pc[r] = "routed"
    /\ k \in env.routes
    /\ v \in env.verbose
    /\ h \in env.headers
    /\ t # "" <=> k = "dependency"
    /\ issued + Cardinality(Admitted \ {r}) < MaxRequests
    /\ pc' = [pc EXCEPT ![r] = "mw"]
    /\ kind' = [kind EXCEPT ![r] = k]
    /\ verbose' = [verbose EXCEPT ![r] = v]
    /\ inbound' = [inbound EXCEPT ![r] = h]
    /\ target' = [target EXCEPT ![r] = t]
    /\ matched' = [matched EXCEPT ![r] = Match(k, t)]
    /\ cancelled' = [cancelled EXCEPT ![r] = FALSE]
    /\ afterPanic' = [afterPanic EXCEPT ![r] = recovered]
    /\ writer' = [writer EXCEPT ![r] = NewWriter]
    /\ UNCHANGED <<srvVars, lifeVars, corrVars, recovered, panicking, escaped, responses, ops,
                   healthVars, outVars>>

\* s.newCorrelationID()
NewCorrelationID ==
    IF newCorrelationID = "custom" THEN CustomID
    ELSE [src |-> "uuid", n |-> issued + 1]

\* MwCorrelate with the "request complete" line written before the inner
\* handler is called.
MwCorrelateLogs(r) ==
    /\ pc[r] = "mw"
    /\ correlationID' = [correlationID EXCEPT ![r] = NewCorrelationID]
    /\ issued' = issued + 1
    /\ writer' = [writer EXCEPT ![r] = HeaderAdd(@, "Correlation-ID", NewCorrelationID)]
    /\ ctxLogger' = [ctxLogger EXCEPT ![r] = log]
    /\ logs' = [logs EXCEPT ![r] = Append(@,
           [level |-> "info", msg |-> "request complete",
            status_code |-> writer[r].StatusCode,
            response_bytes |-> writer[r].Size, ids |-> log])]
    /\ pc' = [pc EXCEPT ![r] = "mw_update"]
    /\ UNCHANGED <<srvVars, lifeVars, log, recovered, reqVars, panicking, escaped, responses,
                   ops, healthVars, metrics>>

\* MwCorrelate without the header.
MwCorrelateNoHeader(r) ==
    /\ pc[r] = "mw"
    /\ correlationID' = [correlationID EXCEPT ![r] = NewCorrelationID]
    /\ issued' = issued + 1
    /\ ctxLogger' = [ctxLogger EXCEPT ![r] = log]
    /\ pc' = [pc EXCEPT ![r] = "mw_update"]
    /\ UNCHANGED <<srvVars, lifeVars, log, recovered, reqVars, writer, panicking, escaped,
                   responses, ops, healthVars, outVars>>

\* MwCorrelate taking the ID of the request's header whenever it has one.
MwCorrelateAdopts(r) ==
    /\ pc[r] = "mw"
    /\ LET id == IF inbound[r] # NoID THEN inbound[r] ELSE NewCorrelationID IN
         /\ correlationID' = [correlationID EXCEPT ![r] = id]
         /\ writer' = [writer EXCEPT ![r] = HeaderAdd(@, "Correlation-ID", id)]
    /\ issued' = issued + 1
    /\ ctxLogger' = [ctxLogger EXCEPT ![r] = log]
    /\ pc' = [pc EXCEPT ![r] = "mw_update"]
    /\ UNCHANGED <<srvVars, lifeVars, log, recovered, reqVars, panicking, escaped, responses,
                   ops, healthVars, outVars>>

\* The correlation ID is generated and added to the response header, and
\* s.log.UpdateContext takes its copy of the logger.
MwCorrelate(r) ==
    /\ pc[r] = "mw"
    /\ correlationID' = [correlationID EXCEPT ![r] = NewCorrelationID]
    /\ issued' = issued + 1
    /\ writer' = [writer EXCEPT ![r] = HeaderAdd(@, "Correlation-ID", NewCorrelationID)]
    /\ ctxLogger' = [ctxLogger EXCEPT ![r] = log]
    /\ pc' = [pc EXCEPT ![r] = "mw_update"]
    /\ UNCHANGED <<srvVars, lifeVars, log, recovered, reqVars, panicking, escaped, responses,
                   ops, healthVars, outVars>>

\* s.log.UpdateContext stores the context with the correlation_id field
\* added, in the logger all requests share, without a lock.
MwUpdateContext(r) ==
    /\ pc[r] = "mw_update"
    /\ log' = Append(ctxLogger[r], correlationID[r])
    /\ pc' = [pc EXCEPT ![r] = "mw_next"]
    /\ UNCHANGED <<srvVars, lifeVars, issued, correlationID, ctxLogger, recovered, reqVars,
                   writer, panicking, escaped, responses, ops, healthVars, outVars>>

\* s.log.WithContext copies the shared logger into the request's context,
\* and next.ServeHTTP is called.
MwNext(r) ==
    /\ pc[r] = "mw_next"
    /\ ctxLogger' = [ctxLogger EXCEPT ![r] = log]
    /\ pc' = [pc EXCEPT ![r] = Entry(kind[r], matched[r])]
    /\ UNCHANGED <<srvVars, lifeVars, issued, log, correlationID, recovered, reqVars,
                   writer, panicking, escaped, responses, ops, healthVars, outVars>>

\* s.log.Error().Stack().Err(...).Send(), with the context of the shared logger.
ErrorEntry(ctx) ==
    [level |-> "error", msg |-> "", status_code |-> 0, response_bytes |-> 0,
     ids |-> ctx]

\* MwRecover without the call of recover(): the panic goes on to net/http.
MwNoRecover(r) ==
    /\ pc[r] = "defer"
    /\ escaped' = [escaped EXCEPT ![r] = panicking[r]]
    /\ pc' = [pc EXCEPT ![r] = "d_log"]
    /\ UNCHANGED <<srvVars, lifeVars, corrVars, recovered, reqVars, writer, panicking, responses,
                   ops, healthVars, outVars>>

\* The deferred function, first part: recover(); on a panic the status is set
\* to 500 through the telemetryWriter and the error is logged with its stack.
MwRecover(r) ==
    /\ pc[r] = "defer"
    /\ IF panicking[r]
       THEN /\ writer' = [writer EXCEPT ![r] = WriteHeader(@, StatusInternalServerError)]
            /\ logs' = [logs EXCEPT ![r] = Append(@, ErrorEntry(log))]
            /\ recovered' = TRUE
       ELSE UNCHANGED <<writer, logs, recovered>>
    /\ pc' = [pc EXCEPT ![r] = "d_log"]
    /\ UNCHANGED <<srvVars, lifeVars, corrVars, reqVars, panicking, escaped, responses, ops,
                   healthVars, metrics>>

\* MwLog with the line written only when the handler did not panic.
MwLogUnlessPanicked(r) ==
    /\ pc[r] = "d_log"
    /\ logs' = [logs EXCEPT ![r] =
           IF panicking[r] THEN @
           ELSE Append(@, [level |-> "info", msg |-> "request complete",
                           status_code |-> writer[r].StatusCode,
                           response_bytes |-> writer[r].Size, ids |-> log])]
    /\ pc' = [pc EXCEPT ![r] = "d_duration"]
    /\ UNCHANGED <<srvVars, lifeVars, corrVars, recovered, reqVars, writer, panicking, escaped,
                   responses, ops, healthVars, metrics>>

\* The deferred function: the "request complete" line.
MwLog(r) ==
    /\ pc[r] = "d_log"
    /\ logs' = [logs EXCEPT ![r] = Append(@,
           [level |-> "info", msg |-> "request complete",
            status_code |-> writer[r].StatusCode,
            response_bytes |-> writer[r].Size, ids |-> log])]
    /\ pc' = [pc EXCEPT ![r] = "d_duration"]
    /\ UNCHANGED <<srvVars, lifeVars, corrVars, recovered, reqVars, writer, panicking, escaped,
                   responses, ops, healthVars, metrics>>

Observation(r, name) ==
    [metric |-> name, method |-> "GET", path |-> PathOf(kind[r], target[r], matched[r]),
     code |-> writer[r].StatusCode, bytes |-> writer[r].Size,
     name |-> "", healthy |-> FALSE]

\* The deferred function: recorder.ObserveRequestDuration.
MwObserveDuration(r) ==
    /\ pc[r] = "d_duration"
    /\ metrics' = [metrics EXCEPT ![r] = Append(@, Observation(r, "duration"))]
    /\ pc' = [pc EXCEPT ![r] = "d_size"]
    /\ UNCHANGED <<srvVars, lifeVars, corrVars, recovered, reqVars, writer, panicking, escaped,
                   responses, ops, healthVars, logs>>

\* The deferred function: recorder.ObserveResponseSize; the middleware returns.
MwObserveSize(r) ==
    /\ pc[r] = "d_size"
    /\ metrics' = [metrics EXCEPT ![r] = Append(@, Observation(r, "size"))]
    /\ pc' = [pc EXCEPT ![r] = "return"]
    /\ UNCHANGED <<srvVars, lifeVars, corrVars, recovered, reqVars, writer, panicking, escaped,
                   responses, ops, healthVars, logs>>

\* Server.ServeHTTP returns to net/http, which completes the response: a
\* handler that sent no status line gets 200.  A panic that reached net/http
\* aborts the connection instead, and the client gets no response.
Finish(r) ==
    /\ pc[r] = "return"
    /\ IF escaped[r]
       THEN UNCHANGED <<writer, responses>>
       ELSE /\ writer' = [writer EXCEPT ![r].sent = IF @ = 0 THEN StatusOK ELSE @,
                                         ![r].wire = IF writer[r].sent = 0
                                                     THEN writer[r].header ELSE @]
            /\ responses' = [responses EXCEPT ![r] = @ + 1]
    /\ pc' = [pc EXCEPT ![r] = "done"]
    /\ UNCHANGED <<srvVars, lifeVars, corrVars, recovered, reqVars, panicking, escaped, ops,
                   healthVars, outVars>>

\* The request's goroutine and everything it allocated are gone.
Recycle(r) ==
    /\ pc[r] = "done"
    /\ pc' = [pc EXCEPT ![r] = "idle"]
    /\ kind' = [kind EXCEPT ![r] = "user"]
    /\ verbose' = [verbose EXCEPT ![r] = FALSE]
    /\ afterPanic' = [afterPanic EXCEPT ![r] = FALSE]
    /\ inbound' = [inbound EXCEPT ![r] = NoID]
    /\ target' = [target EXCEPT ![r] = ""]
    /\ matched' = [matched EXCEPT ![r] = FALSE]
    /\ cancelled' = [cancelled EXCEPT ![r] = FALSE]
    /\ correlationID' = [correlationID EXCEPT ![r] = NoID]
    /\ ctxLogger' = [ctxLogger EXCEPT ![r] = <<>>]
    /\ writer' = [writer EXCEPT ![r] = NewWriter]
    /\ panicking' = [panicking EXCEPT ![r] = FALSE]
    /\ escaped' = [escaped EXCEPT ![r] = FALSE]
    /\ responses' = [responses EXCEPT ![r] = 0]
    /\ ops' = [ops EXCEPT ![r] = 0]
    /\ result' = [result EXCEPT ![r] = NoResult]
    /\ worker' = [worker EXCEPT ![r] = IdleWorkers]
    /\ offer' = [offer EXCEPT ![r] = ""]
    /\ received' = [received EXCEPT ![r] = 0]
    /\ calls' = [calls EXCEPT ![r] = IdleCalls]
    /\ invoked' = [invoked EXCEPT ![r] = {}]
    /\ depErr' = [depErr EXCEPT ![r] = NoErr]
    /\ depChecker' = [depChecker EXCEPT ![r] = ""]
    /\ logs' = [logs EXCEPT ![r] = <<>>]
    /\ metrics' = [metrics EXCEPT ![r] = <<>>]
    /\ UNCHANGED <<srvVars, lifeVars, issued, log, recovered>>

\* ------------------------------------------------------- a user handler

\* A handler registered with AddHandler: it calls WriteHeader and Write on the
\* writer it is given, in any order, and then returns or panics.
UserWriteHeader(r, code) ==
    /\ pc[r] = "user"
    /\ ops[r] < MaxOps
    /\ writer' = [writer EXCEPT ![r] = WriteHeader(@, code)]
    /\ ops' = [ops EXCEPT ![r] = @ + 1]
    /\ UNCHANGED <<srvVars, lifeVars, corrVars, recovered, pc, reqVars, panicking, escaped,
                   responses, healthVars, outVars>>

UserWrite(r, n) ==
    /\ pc[r] = "user"
    /\ ops[r] < MaxOps
    /\ \E under \in Underneath :
           writer' = [writer EXCEPT ![r] = Write(@, Bytes(n), under)]
    /\ ops' = [ops EXCEPT ![r] = @ + 1]
    /\ UNCHANGED <<srvVars, lifeVars, corrVars, recovered, pc, reqVars, panicking, escaped,
                   responses, healthVars, outVars>>

UserReturn(r) ==
    /\ pc[r] = "user"
    /\ pc' = [pc EXCEPT ![r] = "defer"]
    /\ UNCHANGED <<srvVars, lifeVars, corrVars, recovered, reqVars, writer, panicking, escaped,
                   responses, ops, healthVars, outVars>>

UserPanic(r) ==
    /\ pc[r] = "user"
    /\ panicking' = [panicking EXCEPT ![r] = TRUE]
    /\ pc' = [pc EXCEPT ![r] = "defer"]
    /\ UNCHANGED <<srvVars, lifeVars, corrVars, recovered, reqVars, writer, escaped, responses,
                   ops, healthVars, outVars>>

\* ------------------------------------------- /ping and unmatched paths

PongText == [form |-> "text", value |-> "pong"]

\* The handler of /ping: writer.Write([]byte(`pong`)).
Ping(r) ==
    /\ pc[r] = "ping"
    /\ \E under \in Underneath :
           writer' = [writer EXCEPT ![r] = Write(@, PongText, under)]
    /\ pc' = [pc EXCEPT ![r] = "defer"]
    /\ UNCHANGED <<srvVars, lifeVars, corrVars, recovered, reqVars, panicking, escaped,
                   responses, ops, healthVars, outVars>>

\* VersionText without the default.
VersionTextRaw(v) == [form |-> "text", value |-> v]

\* The bytes the handler of /version writes: the version, or "unversioned"
\* when the version is the empty string.
VersionText(v) ==
    IF v # ""
    THEN [form |-> "text", value |-> v]
    ELSE [form |-> "text", value |-> "unversioned"]

\* The handler of /version: writer.Write([]byte(version)).
Version(r) ==
    /\ pc[r] = "version"
    /\ \E under \in Underneath :
           writer' = [writer EXCEPT ![r] = Write(@, VersionText(version), under)]
    /\ pc' = [pc EXCEPT ![r] = "defer"]
    /\ UNCHANGED <<srvVars, lifeVars, corrVars, recovered, reqVars, panicking, escaped,
                   responses, ops, healthVars, outVars>>

\* "404 page not found" and the line feed Fprintln adds.
NotFoundText ==
    [form |-> "text", value |-> "404 page not found" \o "\n"]

\* HttpError with the header map replaced, not extended.
HttpErrorFreshHeader(w, text, code, under) ==
    Write(WriteHeader(HeaderSet([w EXCEPT !.header = EmptyMap],
              "Content-Type", "text/plain; charset=utf-8"),
          code), text, under)

\* HttpError with the status line alone.
HttpErrorNoText(w, text, code, under) ==
    WriteHeader(HeaderSet(HeaderSet(w,
            "Content-Type", "text/plain; charset=utf-8"),
            "X-Content-Type-Options", "nosniff"),
        code)

\* http.Error(w, error, code): the content type is set to plain text, the
\* status line is written, then the text and a line feed.
HttpError(w, text, code, under) ==
    Write(WriteHeader(HeaderSet(HeaderSet(w,
              "Content-Type", "text/plain; charset=utf-8"),
              "X-Content-Type-Options", "nosniff"),
          code), text, under)

\* http.NotFound, the handler of the catch-all route prepareHTTPServe adds.
NotFound(r) ==
    /\ pc[r] = "notfound"
    /\ \E under \in Underneath :
           writer' = [writer EXCEPT ![r] =
               HttpError(@, NotFoundText, StatusNotFound, under)]
    /\ pc' = [pc EXCEPT ![r] = "defer"]
    /\ UNCHANGED <<srvVars, lifeVars, corrVars, recovered, reqVars, panicking, escaped,
                   responses, ops, healthVars, outVars>>

\* ------------------------------------- the aggregate health handler, /health

\* AfterSpawn with no collecting loop behind the spawning loop.
AfterSpawnNoCollect(r, spawned) ==
    IF spawned # Registered THEN "h_spawn" ELSE "h_log"

\* Where the handler goes when an iteration of its spawning loop ends: the
\* loop ranges over the registry, and the collecting loop comes after it.
AfterSpawn(r, spawned) ==
    IF spawned # Registered THEN "h_spawn" ELSE "h_collect"

Spawned(r) == {n \in Registered : worker[r][n].state # "none"}

\* The Content-Type header is added, the result starts healthy with what
\* s.Uptime() returns (its two reads of startedAt take no lock) and an empty
\* map, and the result channel is made.
HealthStart(r) ==
    /\ pc[r] = "h_start"
    /\ writer' = [writer EXCEPT ![r] = HeaderAdd(@, "Content-Type", "application/json")]
    /\ \E t \in Reads, u \in Reads :
           result' = [result EXCEPT ![r] =
               [Status |-> healthyStatus, Uptime |-> UptimeValue(t, u),
                Dependencies |-> EmptyMap]]
    /\ pc' = [pc EXCEPT ![r] = AfterSpawn(r, {})]
    /\ UNCHANGED <<srvVars, lifeVars, corrVars, recovered, reqVars, panicking, escaped, responses,
                   ops, worker, offer, received, calls, invoked, depVars, outVars>>

\* go s.checkService(request.Context(), name, checker, serviceChan), for the
\* next name the range over the map yields.
HealthSpawn(r, n) ==
    /\ pc[r] = "h_spawn"
    /\ n \in Registered \ Spawned(r)
    /\ worker' = [worker EXCEPT ![r][n] =
           [state |-> "run", name |-> n, checker |-> healthDependencies[n],
            ctx |-> r, err |-> NoErr]]
    /\ pc' = [pc EXCEPT ![r] = AfterSpawn(r, Spawned(r) \cup {n})]
    /\ UNCHANGED <<srvVars, lifeVars, corrVars, recovered, reqVars, writer, panicking, escaped,
                   responses, ops, result, offer, received, calls, invoked, depVars, outVars>>

\* CheckService with the worker answering for a failed check itself: it
\* calls WriteHeader(500) on the request's writer.
CheckServiceWrites(r, n, v) ==
    /\ kind[r] = "health"
    /\ pc[r] # "crashed"
    /\ worker[r][n].state = "run"
    /\ v \in Returns(worker[r][n].checker)
    /\ worker' = [worker EXCEPT ![r][n].state = "send", ![r][n].err = v]
    /\ calls' = [calls EXCEPT ![r][n] = @ + 1]
    /\ invoked' = [invoked EXCEPT ![r] = @ \cup {worker[r][n].checker}]
    /\ writer' = [writer EXCEPT ![r] =
           IF v # NoErr THEN WriteHeader(@, StatusInternalServerError) ELSE @]
    /\ UNCHANGED <<srvVars, lifeVars, corrVars, recovered, pc, reqVars, panicking,
                   escaped, responses, ops, result, offer, received, depVars, outVars>>

\* checkService: the worker calls checker.HealthCheck(ctx), which returns v,
\* and then offers the serviceHealth on the channel.
CheckService(r, n, v) ==
    /\ kind[r] = "health"
    /\ pc[r] # "crashed"
    /\ worker[r][n].state = "run"
    /\ v \in Returns(worker[r][n].checker)
    /\ worker' = [worker EXCEPT ![r][n].state = "send", ![r][n].err = v]
    /\ calls' = [calls EXCEPT ![r][n] = @ + 1]
    /\ invoked' = [invoked EXCEPT ![r] = @ \cup {worker[r][n].checker}]
    /\ UNCHANGED <<srvVars, lifeVars, corrVars, recovered, pc, reqVars, writer, panicking, escaped,
                   responses, ops, result, offer, received, depVars, outVars>>

\* checkService when checker.HealthCheck(ctx) panics: the worker is a
\* goroutine of its own with no deferred recover, so the Go runtime prints the
\* panic and ends the process, with every request in it.
CheckServicePanic(r, n) ==
    /\ kind[r] = "health"
    /\ pc[r] # "crashed"
    /\ env.panics
    /\ worker[r][n].state = "run"
    /\ worker' = [worker EXCEPT ![r][n].state = "panic"]
    /\ calls' = [calls EXCEPT ![r][n] = @ + 1]
    /\ invoked' = [invoked EXCEPT ![r] = @ \cup {worker[r][n].checker}]
    /\ pc' = [q \in Req |-> "crashed"]
    /\ UNCHANGED <<srvVars, lifeVars, corrVars, recovered, reqVars, writer, panicking, escaped,
                   responses, ops, result, offer, received, depVars, outVars>>

\* Merge with every failure turning the status over.
MergeToggles(res, health) ==
    IF health.err = NoErr
    THEN [res EXCEPT !.Dependencies = MapPut(@, health.name, HealthyEntry)]
    ELSE [res EXCEPT !.Dependencies = MapPut(@, health.name, Detail(health.err)),
                     !.Status = IF @ = healthyStatus THEN unhealthyStatus
                                ELSE healthyStatus]

\* Merge with the status following the last result read.
MergeLastWins(res, health) ==
    IF health.err = NoErr
    THEN [res EXCEPT !.Dependencies = MapPut(@, health.name, HealthyEntry),
                     !.Status = healthyStatus]
    ELSE [res EXCEPT !.Dependencies = MapPut(@, health.name, Detail(health.err)),
                     !.Status = unhealthyStatus]

\* Merge with the map made anew for every result.
MergeFreshMap(res, health) ==
    IF health.err = NoErr
    THEN [res EXCEPT !.Dependencies = MapPut(EmptyMap, health.name, HealthyEntry)]
    ELSE [res EXCEPT !.Dependencies = MapPut(EmptyMap, health.name, Detail(health.err)),
                     !.Status = IF @ = healthyStatus THEN unhealthyStatus ELSE @]

\* The body of the collecting loop for a received serviceHealth.
Merge(res, health) ==
    IF health.err = NoErr
    THEN [res EXCEPT !.Dependencies = MapPut(@, health.name, HealthyEntry)]
    ELSE [res EXCEPT !.Dependencies = MapPut(@, health.name, Detail(health.err)),
                     !.Status = IF @ = healthyStatus THEN unhealthyStatus ELSE @]

\* MergeWritesHeader without its check of the status.
MergeWritesHeaderUnguarded(res, health) ==
    health.err # NoErr

\* MergeWritesHeader with its check of the status turned around.
MergeWritesHeaderInverted(res, health) ==
    health.err # NoErr /\ res.Status = unhealthyStatus

\* Whether that body calls writer.WriteHeader(500).
MergeWritesHeader(res, health) ==
    health.err # NoErr /\ res.Status = healthyStatus

\* AfterCollect with the loop one iteration short.
AfterCollectEarly(r, n) ==
    IF n + 1 >= Cardinality(Registered) THEN "h_log" ELSE "h_collect"

\* Where the handler goes after the n-th result: the loop runs once for
\* every entry of the registry.
AfterCollect(r, n) ==
    IF n = Cardinality(Registered) THEN "h_log" ELSE "h_collect"

\* The context of the request is cancelled: the client has gone away, or a
\* deadline the caller of the server put on it has passed.  net/http does it;
\* the handler hands the context to every worker's HealthCheck (line 142) and
\* to zerolog.Ctx, and reads nothing else of it.
CtxCancel(r) ==
    /\ pc[r] \notin {"idle", "done", "crashed"}
    /\ ~cancelled[r]
    /\ cancelled' = [cancelled EXCEPT ![r] = TRUE]
    /\ UNCHANGED <<srvVars, lifeVars, corrVars, recovered, pc, kind, verbose, afterPanic,
                   inbound, target, matched, writer, panicking, escaped, responses, ops,
                   healthVars, outVars>>

\* HealthCollect as a select on the channel and on ctx.Done(): once the
\* context is cancelled the handler leaves its loop with the results it has.
HealthCollectOrDone(r, n) ==
    /\ pc[r] = "h_collect"
    /\ IF cancelled[r]
       THEN /\ pc' = [pc EXCEPT ![r] = "h_log"]
            /\ UNCHANGED <<result, writer, worker, received>>
       ELSE /\ worker[r][n].state = "send"
            /\ LET health == [name |-> worker[r][n].name, err |-> worker[r][n].err] IN
                 /\ result' = [result EXCEPT ![r] = Merge(@, health)]
                 /\ writer' = [writer EXCEPT ![r] =
                        IF MergeWritesHeader(result[r], health)
                        THEN WriteHeader(@, StatusInternalServerError) ELSE @]
            /\ worker' = [worker EXCEPT ![r][n].state = "done"]
            /\ received' = [received EXCEPT ![r] = @ + 1]
            /\ pc' = [pc EXCEPT ![r] = AfterCollect(r, received[r] + 1)]
    /\ UNCHANGED <<srvVars, lifeVars, corrVars, recovered, reqVars, panicking, escaped, responses,
                   ops, offer, calls, invoked, depVars, outVars>>

\* HealthCollect with one result channel shared by all requests: the handler
\* meets a sending worker of any pass.
HealthCollectShared(r, n) ==
    /\ pc[r] = "h_collect"
    /\ \E q \in Req :
         /\ worker[q][n].state = "send"
         /\ LET health == [name |-> worker[q][n].name, err |-> worker[q][n].err] IN
              /\ result' = [result EXCEPT ![r] = Merge(@, health)]
              /\ writer' = [writer EXCEPT ![r] =
                     IF MergeWritesHeader(result[r], health)
                     THEN WriteHeader(@, StatusInternalServerError) ELSE @]
         /\ worker' = [worker EXCEPT ![q][n].state = "done"]
    /\ received' = [received EXCEPT ![r] = @ + 1]
    /\ pc' = [pc EXCEPT ![r] = AfterCollect(r, received[r] + 1)]
    /\ UNCHANGED <<srvVars, lifeVars, corrVars, recovered, reqVars, panicking, escaped, responses,
                   ops, offer, calls, invoked, depVars, outVars>>

\* health := <-serviceChan, and the loop's body: the handler meets a worker
\* that is sending, the worker ends.
HealthCollect(r, n) ==
    /\ pc[r] = "h_collect"
    /\ worker[r][n].state = "send"
    /\ LET health == [name |-> worker[r][n].name, err |-> worker[r][n].err] IN
         /\ result' = [result EXCEPT ![r] = Merge(@, health)]
         /\ writer' = [writer EXCEPT ![r] =
                IF MergeWritesHeader(result[r], health)
                THEN WriteHeader(@, StatusInternalServerError) ELSE @]
    /\ worker' = [worker EXCEPT ![r][n].state = "done"]
    /\ received' = [received EXCEPT ![r] = @ + 1]
    /\ pc' = [pc EXCEPT ![r] = AfterCollect(r, received[r] + 1)]
    /\ UNCHANGED <<srvVars, lifeVars, corrVars, recovered, reqVars, panicking, escaped, responses,
                   ops, offer, calls, invoked, depVars, outVars>>

\* for range s.healthDependencies finds no entry it has not received a result
\* for when the loop begins: the handler goes on without a receive.
HealthCollectEmpty(r) ==
    /\ pc[r] = "h_collect"
    /\ received[r] = 0
    /\ AfterCollect(r, received[r]) = "h_log"
    /\ pc' = [pc EXCEPT ![r] = "h_log"]
    /\ UNCHANGED <<srvVars, lifeVars, corrVars, recovered, reqVars, writer, panicking,
                   escaped, responses, ops, healthVars, outVars>>

HealthEntry(r) ==
    [level |-> "info", msg |-> "health check",
     status_code |-> 0, response_bytes |-> 0, ids |-> ctxLogger[r]]

\* HealthLog with the summary logged for verbose requests alone.
HealthLogVerboseOnly(r) ==
    /\ pc[r] = "h_log"
    /\ logs' = [logs EXCEPT ![r] = IF verbose[r] THEN Append(@, HealthEntry(r)) ELSE @]
    /\ pc' = [pc EXCEPT ![r] = IF verbose[r] THEN "h_encode" ELSE "defer"]
    /\ UNCHANGED <<srvVars, lifeVars, corrVars, recovered, reqVars, writer, panicking,
                   escaped, responses, ops, healthVars, metrics>>

\* The summary is logged; without the verbose flag the handler returns.
HealthLog(r) ==
    /\ pc[r] = "h_log"
    /\ logs' = [logs EXCEPT ![r] = Append(@, HealthEntry(r))]
    /\ pc' = [pc EXCEPT ![r] = IF verbose[r] THEN "h_encode" ELSE "defer"]
    /\ UNCHANGED <<srvVars, lifeVars, corrVars, recovered, reqVars, writer, panicking, escaped,
                   responses, ops, healthVars, metrics>>

\* A time.Duration as encoding/json writes it: its nanoseconds in decimal.
\* The largest Duration is 1<<63 - 1; the one elapsed time of the model is a
\* second.
DurationText(d) ==
    CASE d = "0" -> ToString(0)
      [] d = "max" -> "9223372036854775807"
      [] OTHER -> "1000000000"

\* The dependencies member, left out of the object for an empty map
\* (omitempty).
DependenciesMember(deps) ==
    IF DOMAIN deps = {} THEN "" ELSE ",\"dependencies\":" \o JSONMap(deps)

\* What json.NewEncoder(writer).Encode(&result) writes: the object with its
\* members in the order of the struct's fields, then a line feed.
EncodedResult(res) ==
    [form |-> "object",
     value |-> "{\"status\":" \o Quote(res.Status)
                   \o ",\"uptime\":" \o DurationText(res.Uptime)
                   \o DependenciesMember(res.Dependencies) \o "}" \o "\n"]

\* json.NewEncoder(writer).Encode(&result), and the handler returns.
HealthEncode(r) ==
    /\ pc[r] = "h_encode"
    /\ \E under \in Underneath :
           writer' = [writer EXCEPT ![r] = Write(@, EncodedResult(result[r]), under)]
    /\ pc' = [pc EXCEPT ![r] = "defer"]
    /\ UNCHANGED <<srvVars, lifeVars, corrVars, recovered, reqVars, panicking, escaped, responses,
                   ops, healthVars, outVars>>

\* ------------- the variant of the aggregate handler that takes the Recorder

\* It hands each checker to its worker over checkChan, stores the text of an
\* error, and reports every result with recorder.ObserveHealth.

VAfterSpawn(r, spawned) ==
    IF spawned # Registered THEN "v_spawn" ELSE "v_collect"

VStart(r) ==
    /\ pc[r] = "v_start"
    /\ writer' = [writer EXCEPT ![r] = HeaderAdd(@, "Content-Type", "application/json")]
    /\ \E t \in Reads, u \in Reads :
           result' = [result EXCEPT ![r] =
               [Status |-> healthyStatus, Version |-> version,
                Uptime |-> UptimeValue(t, u), Dependencies |-> EmptyMap]]
    /\ pc' = [pc EXCEPT ![r] = VAfterSpawn(r, {})]
    /\ UNCHANGED <<srvVars, lifeVars, corrVars, recovered, reqVars, panicking, escaped, responses,
                   ops, worker, offer, received, calls, invoked, depVars, outVars>>

\* VSpawn with the worker of the next name started too before the checker
\* is sent: two workers wait on checkChan for one checker.
VSpawnAhead(r, n) ==
    /\ pc[r] = "v_spawn"
    /\ n \in Registered \ Spawned(r)
    /\ worker' = [worker EXCEPT ![r] =
           [m \in DepNames |->
               IF m \in Registered \ Spawned(r)
               THEN [state |-> "wait", name |-> m, checker |-> "", ctx |-> 0,
                     err |-> NoErr]
               ELSE worker[r][m]]]
    /\ offer' = [offer EXCEPT ![r] = healthDependencies[n]]
    /\ pc' = [pc EXCEPT ![r] = "v_hand"]
    /\ UNCHANGED <<srvVars, lifeVars, corrVars, recovered, reqVars, writer, panicking, escaped,
                   responses, ops, result, received, calls, invoked, depVars, outVars>>

\* go s.checkService(name, checkChan, serviceChan); the handler goes on to
\* send the checker on checkChan.
VSpawn(r, n) ==
    /\ pc[r] = "v_spawn"
    /\ n \in Registered \ Spawned(r)
    /\ worker' = [worker EXCEPT ![r][n] =
           [state |-> "wait", name |-> n, checker |-> "", ctx |-> 0, err |-> NoErr]]
    /\ offer' = [offer EXCEPT ![r] = healthDependencies[n]]
    /\ pc' = [pc EXCEPT ![r] = "v_hand"]
    /\ UNCHANGED <<srvVars, lifeVars, corrVars, recovered, reqVars, writer, panicking, escaped,
                   responses, ops, result, received, calls, invoked, depVars, outVars>>

\* checkChan <- checker meets checker := <-in of a worker that waits.
VHandoff(r, n) ==
    /\ pc[r] = "v_hand"
    /\ worker[r][n].state = "wait"
    /\ worker' = [worker EXCEPT ![r][n].state = "run", ![r][n].checker = offer[r]]
    /\ offer' = [offer EXCEPT ![r] = ""]
    /\ pc' = [pc EXCEPT ![r] = VAfterSpawn(r, Spawned(r))]
    /\ UNCHANGED <<srvVars, lifeVars, corrVars, recovered, reqVars, writer, panicking, escaped,
                   responses, ops, result, received, calls, invoked, depVars, outVars>>

\* The worker calls checker.HealthCheck() and offers the serviceHealth.
VCheckService(r, n, v) ==
    /\ kind[r] = "healthRecorder"
    /\ pc[r] # "crashed"
    /\ worker[r][n].state = "run"
    /\ v \in Returns(worker[r][n].checker)
    /\ worker' = [worker EXCEPT ![r][n].state = "send", ![r][n].err = v]
    /\ calls' = [calls EXCEPT ![r][n] = @ + 1]
    /\ invoked' = [invoked EXCEPT ![r] = @ \cup {worker[r][n].checker}]
    /\ UNCHANGED <<srvVars, lifeVars, corrVars, recovered, pc, reqVars, writer, panicking, escaped,
                   responses, ops, result, offer, received, depVars, outVars>>

\* The variant's checkService when checker.HealthCheck() panics: its worker
\* too is a goroutine with no deferred recover, and the process ends.
VCheckServicePanic(r, n) ==
    /\ kind[r] = "healthRecorder"
    /\ pc[r] # "crashed"
    /\ env.panics
    /\ worker[r][n].state = "run"
    /\ worker' = [worker EXCEPT ![r][n].state = "panic"]
    /\ calls' = [calls EXCEPT ![r][n] = @ + 1]
    /\ invoked' = [invoked EXCEPT ![r] = @ \cup {worker[r][n].checker}]
    /\ pc' = [q \in Req |-> "crashed"]
    /\ UNCHANGED <<srvVars, lifeVars, corrVars, recovered, reqVars, writer, panicking, escaped,
                   responses, ops, result, offer, received, depVars, outVars>>

VMerge(res, health) ==
    IF health.err = NoErr
    THEN [res EXCEPT !.Dependencies = MapPut(@, health.name, HealthyEntry)]
    ELSE [res EXCEPT !.Dependencies = MapPut(@, health.name, TextDetail(health.err)),
                     !.Status = unhealthyStatus]

\* The variant's loop body calls writer.WriteHeader(500) for every error.
VMergeWritesHeader(res, health) == health.err # NoErr

HealthObservation(health) ==
    [metric |-> "health", method |-> "", path |-> "", code |-> 0, bytes |-> 0,
     name |-> health.name, healthy |-> (health.err = NoErr)]

VAfterCollect(r, n) ==
    IF n = Cardinality(Registered) THEN "v_log" ELSE "v_collect"

VCollect(r, n) ==
    /\ pc[r] = "v_collect"
    /\ worker[r][n].state = "send"
    /\ LET health == [name |-> worker[r][n].name, err |-> worker[r][n].err] IN
         /\ result' = [result EXCEPT ![r] = VMerge(@, health)]
         /\ writer' = [writer EXCEPT ![r] =
                IF VMergeWritesHeader(result[r], health)
                THEN WriteHeader(@, StatusInternalServerError) ELSE @]
         /\ metrics' = [metrics EXCEPT ![r] = Append(@, HealthObservation(health))]
    /\ worker' = [worker EXCEPT ![r][n].state = "done"]
    /\ received' = [received EXCEPT ![r] = @ + 1]
    /\ pc' = [pc EXCEPT ![r] = VAfterCollect(r, received[r] + 1)]
    /\ UNCHANGED <<srvVars, lifeVars, corrVars, recovered, reqVars, panicking, escaped, responses,
                   ops, offer, calls, invoked, logs, depVars>>

\* for range s.healthChecks finds no entry when the loop begins.
VCollectEmpty(r) ==
    /\ pc[r] = "v_collect"
    /\ received[r] = 0
    /\ VAfterCollect(r, received[r]) = "v_log"
    /\ pc' = [pc EXCEPT ![r] = "v_log"]
    /\ UNCHANGED <<srvVars, lifeVars, corrVars, recovered, reqVars, writer, panicking,
                   escaped, responses, ops, healthVars, outVars>>

VLog(r) ==
    /\ pc[r] = "v_log"
    /\ logs' = [logs EXCEPT ![r] = Append(@, HealthEntry(r))]
    /\ pc' = [pc EXCEPT ![r] = IF verbose[r] THEN "v_encode" ELSE "defer"]
    /\ UNCHANGED <<srvVars, lifeVars, corrVars, recovered, reqVars, writer, panicking, escaped,
                   responses, ops, healthVars, metrics>>

\* The version member, left out of the object for the empty string
\* (omitempty).
VersionMember(v) ==
    IF v = "" THEN "" ELSE ",\"version\":" \o Quote(v)

\* What Encode(&result) writes for the variant's result.
VEncodedResult(res) ==
    [form |-> "object",
     value |-> "{\"status\":" \o Quote(res.Status)
                   \o VersionMember(res.Version)
                   \o ",\"uptime\":" \o DurationText(res.Uptime)
                   \o DependenciesMember(res.Dependencies) \o "}" \o "\n"]

VEncode(r) ==
    /\ pc[r] = "v_encode"
    /\ \E under \in Underneath :
           writer' = [writer EXCEPT ![r] = Write(@, VEncodedResult(result[r]), under)]
    /\ pc' = [pc EXCEPT ![r] = "defer"]
    /\ UNCHANGED <<srvVars, lifeVars, corrVars, recovered, reqVars, panicking, escaped, responses,
                   ops, healthVars, outVars>>

\* --------------------------- the handler of one dependency, /health/{name}

\* DependencyDetail with the text of every error.
DependencyDetailText(err) == [form |-> "string", value |-> ErrorText(err)]

\* The entry the handler stores for an error: the error itself unless
\* marshalling it fails or gives {}, then its text.
DependencyDetail(err) ==
    IF Marshal(err).ok /\ Marshal(err).data # EmptyObject
    THEN [form |-> "object", value |-> Marshal(err).data]
    ELSE [form |-> "string", value |-> ErrorText(err)]

\* checker, ok := s.healthDependencies[name]: http.Error with 404 when the
\* name is not there; else the Content-Type header is added and the result
\* starts healthy.
DepStart(r) ==
    /\ pc[r] = "dep_start"
    /\ IF target[r] \notin Registered
       THEN /\ \E under \in Underneath :
                   writer' = [writer EXCEPT ![r] =
                       HttpError(@, NotFoundText, StatusNotFound, under)]
            /\ pc' = [pc EXCEPT ![r] = "defer"]
            /\ UNCHANGED <<result, depChecker>>
       ELSE /\ depChecker' = [depChecker EXCEPT ![r] = healthDependencies[target[r]]]
            /\ writer' = [writer EXCEPT ![r] =
                   HeaderAdd(@, "Content-Type", "application/json")]
            /\ result' = [result EXCEPT ![r] =
                   [Status |-> "", Dependencies |-> MapPut(EmptyMap, target[r], HealthyEntry)]]
            /\ pc' = [pc EXCEPT ![r] = "dep_check"]
    /\ UNCHANGED <<srvVars, lifeVars, corrVars, recovered, reqVars, panicking, escaped,
                   responses, ops, worker, offer, received, calls, invoked, depErr, outVars>>

\* DepCheck with the detail stored before the check of the error.
DepCheckAlwaysFails(r, v) ==
    /\ pc[r] = "dep_check"
    /\ v \in Returns(depChecker[r])
    /\ calls' = [calls EXCEPT ![r][target[r]] = @ + 1]
    /\ invoked' = [invoked EXCEPT ![r] = @ \cup {depChecker[r]}]
    /\ depErr' = [depErr EXCEPT ![r] = v]
    /\ writer' = [writer EXCEPT ![r] = WriteHeader(@, StatusInternalServerError)]
    /\ result' = [result EXCEPT ![r].Dependencies[target[r]] = DependencyDetail(v)]
    /\ pc' = [pc EXCEPT ![r] = "dep_log"]
    /\ UNCHANGED <<srvVars, lifeVars, corrVars, recovered, reqVars, panicking, escaped,
                   responses, ops, worker, offer, received, depChecker, outVars>>

\* checker.HealthCheck(request.Context()) returns v, on the request's own
\* goroutine: for an error WriteHeader(500) is called and the detail stored.
DepCheck(r, v) ==
    /\ pc[r] = "dep_check"
    /\ v \in Returns(depChecker[r])
    /\ calls' = [calls EXCEPT ![r][target[r]] = @ + 1]
    /\ invoked' = [invoked EXCEPT ![r] = @ \cup {depChecker[r]}]
    /\ depErr' = [depErr EXCEPT ![r] = v]
    /\ IF v # NoErr
       THEN /\ writer' = [writer EXCEPT ![r] = WriteHeader(@, StatusInternalServerError)]
            /\ result' = [result EXCEPT ![r].Dependencies[target[r]] = DependencyDetail(v)]
       ELSE UNCHANGED <<writer, result>>
    /\ pc' = [pc EXCEPT ![r] = "dep_log"]
    /\ UNCHANGED <<srvVars, lifeVars, corrVars, recovered, reqVars, panicking, escaped,
                   responses, ops, worker, offer, received, depChecker, outVars>>

\* checker.HealthCheck panics: the panic unwinds the handler and reaches the
\* deferred function of the middleware.
DepCheckPanic(r) ==
    /\ pc[r] = "dep_check"
    /\ env.panics
    /\ calls' = [calls EXCEPT ![r][target[r]] = @ + 1]
    /\ invoked' = [invoked EXCEPT ![r] = @ \cup {depChecker[r]}]
    /\ panicking' = [panicking EXCEPT ![r] = TRUE]
    /\ pc' = [pc EXCEPT ![r] = "defer"]
    /\ UNCHANGED <<srvVars, lifeVars, corrVars, recovered, reqVars, writer, escaped,
                   responses, ops, result, worker, offer, received, depVars, outVars>>

\* DepLog with the body encoded for every request.
DepLogEncodesAlways(r) ==
    /\ pc[r] = "dep_log"
    /\ logs' = [logs EXCEPT ![r] = Append(@, HealthEntry(r))]
    /\ pc' = [pc EXCEPT ![r] = "dep_encode"]
    /\ UNCHANGED <<srvVars, lifeVars, corrVars, recovered, reqVars, writer, panicking, escaped,
                   responses, ops, healthVars, metrics>>

\* The summary is logged; without the verbose flag the handler returns.
DepLog(r) ==
    /\ pc[r] = "dep_log"
    /\ logs' = [logs EXCEPT ![r] = Append(@, HealthEntry(r))]
    /\ pc' = [pc EXCEPT ![r] = IF verbose[r] THEN "dep_encode" ELSE "defer"]
    /\ UNCHANGED <<srvVars, lifeVars, corrVars, recovered, reqVars, writer, panicking, escaped,
                   responses, ops, healthVars, metrics>>

\* What json.NewEncoder(writer).Encode(result[name]) writes: the entry as
\* JSON, then a line feed.
EncodedEntry(entry) ==
    [form |-> entry.form, value |-> JSONValue(entry) \o "\n"]

\* json.NewEncoder(writer).Encode(result[name]), and the handler returns.
DepEncode(r) ==
    /\ pc[r] = "dep_encode"
    /\ \E under \in Underneath :
           writer' = [writer EXCEPT ![r] =
               Write(@, EncodedEntry(result[r].Dependencies[target[r]]), under)]
    /\ pc' = [pc EXCEPT ![r] = "defer"]
    /\ UNCHANGED <<srvVars, lifeVars, corrVars, recovered, reqVars, panicking, escaped,
                   responses, ops, healthVars, outVars>>

\* ---------------------------------------------------------- specification

Next ==
    \E r \in Req :
        \/ \E k \in Kinds, v \in BOOLEAN, h \in Headers, t \in {""} \cup DepNames :
               MwEnter(r, k, v, h, t)
        \/ PrepareHTTPServe(r)
        \/ AddNotFoundRoute(r)
        \/ MwCorrelate(r)
        \/ MwUpdateContext(r)
        \/ MwNext(r)
        \/ \E code \in UserCodes : UserWriteHeader(r, code)
        \/ \E n \in 1 .. MaxWrite : UserWrite(r, n)
        \/ UserReturn(r)
        \/ UserPanic(r)
        \/ Ping(r)
        \/ Version(r)
        \/ NotFound(r)
        \/ DepStart(r)
        \/ \E v \in {NoErr} \cup UNION {ErrorsOf(n) : n \in DepNames} : DepCheck(r, v)
        \/ DepCheckPanic(r)
        \/ DepLog(r)
        \/ DepEncode(r)
        \/ \E n \in DepNames : CheckServicePanic(r, n)
        \/ HealthStart(r)
        \/ \E n \in DepNames : HealthSpawn(r, n)
        \/ \E n \in DepNames : \E v \in {NoErr} \cup ErrorsOf(n) : CheckService(r, n, v)
        \/ \E n \in DepNames : HealthCollect(r, n)
        \/ HealthCollectEmpty(r)
        \/ HealthLog(r)
        \/ HealthEncode(r)
        \/ MwRecover(r)
        \/ MwLog(r)
        \/ MwObserveDuration(r)
        \/ MwObserveSize(r)
        \/ Finish(r)
        \/ Recycle(r)

Spec == Init /\ [][Next]_vars

\* Clients that send requests one at a time to a server whose /health is
\* served by the handler that takes the Recorder.  New builds no such
\* server: the state is the one the specification's /health stands for,
\* with the constructed server of New and that one route in place of the
\* routes of addDefaultHandlers.
InitVariant ==
    /\ readCorrelationHeader = FALSE
    /\ newCorrelationID = "custom"
    /\ InitServer
    /\ env = [inFlight |-> 1, routes |-> VariantKinds, verbose |-> BOOLEAN,
               errTypes |-> ErrTypes, headers |-> {NoID},
               panics |-> TRUE, late |-> FALSE]
    /\ InitRequests

\* The steps of requests served by that handler.
NextVariant ==
    \E r \in Req :
        \/ \E k \in VariantKinds, v \in BOOLEAN, h \in Headers, t \in {""} \cup DepNames :
               MwEnter(r, k, v, h, t)
        \/ PrepareHTTPServe(r)
        \/ AddNotFoundRoute(r)
        \/ MwCorrelate(r)
        \/ MwUpdateContext(r)
        \/ MwNext(r)
        \/ VStart(r)
        \/ \E n \in DepNames : VSpawn(r, n)
        \/ \E n \in DepNames : VHandoff(r, n)
        \/ \E n \in DepNames : \E v \in {NoErr} \cup ErrorsOf(n) : VCheckService(r, n, v)
        \/ \E n \in DepNames : VCheckServicePanic(r, n)
        \/ \E n \in DepNames : VCollect(r, n)
        \/ VCollectEmpty(r)
        \/ VLog(r)
        \/ VEncode(r)
        \/ MwRecover(r)
        \/ MwLog(r)
        \/ MwObserveDuration(r)
        \/ MwObserveSize(r)
        \/ Finish(r)
        \/ Recycle(r)

SpecVariant == InitVariant /\ [][NextVariant]_vars

\* The steps of /health requests alone.
NextConc ==
    \E r \in Req :
        \/ \E k \in Kinds, v \in BOOLEAN, h \in Headers, t \in {""} \cup DepNames :
               MwEnter(r, k, v, h, t)
        \/ MwCorrelate(r)
        \/ MwUpdateContext(r)
        \/ MwNext(r)
        \/ HealthStart(r)
        \/ \E n \in DepNames : HealthSpawn(r, n)
        \/ \E n \in DepNames : \E v \in {NoErr} \cup ErrorsOf(n) : CheckService(r, n, v)
        \/ \E n \in DepNames : HealthCollect(r, n)
        \/ HealthCollectEmpty(r)
        \/ HealthLog(r)
        \/ HealthEncode(r)
        \/ MwRecover(r)
        \/ MwLog(r)
        \/ MwObserveDuration(r)
        \/ MwObserveSize(r)
        \/ Finish(r)
        \/ Recycle(r)

SpecConc == InitConc /\ [][NextConc]_vars

\* The steps of /health requests, and the cancellation of their contexts.
NextWait ==
    \/ NextConc
    \/ \E r \in Req : CtxCancel(r)

SpecWait == InitConc /\ [][NextWait]_vars

\* The steps of the goroutine that serves request r, once it has begun.
Serve(r) ==
    \/ MwCorrelate(r)
    \/ MwUpdateContext(r)
    \/ MwNext(r)
    \/ HealthStart(r)
    \/ \E n \in DepNames : HealthSpawn(r, n)
    \/ \E n \in DepNames : HealthCollect(r, n)
    \/ HealthCollectEmpty(r)
    \/ HealthLog(r)
    \/ HealthEncode(r)
    \/ MwRecover(r)
    \/ MwLog(r)
    \/ MwObserveDuration(r)
    \/ MwObserveSize(r)
    \/ Finish(r)

\* The HealthCheck call of the worker of request r for dependency n returns.
Returned(r, n) ==
    \E v \in {NoErr} \cup ErrorsOf(n) : CheckService(r, n, v)

\* The Go scheduler runs every goroutine that can take a step, and every
\* HealthCheck call returns in the end.
Scheduling ==
    /\ \A r \in Req : WF_vars(Serve(r))
    /\ \A r \in Req : \A n \in ConcNames : WF_vars(Returned(r, n))

SpecLive == InitConc /\ [][NextConc]_vars /\ Scheduling

\* New applying its options, and then requests to /health, /health/{name}
\* and /version.
NextCfg ==
    \/ \E n \in ConcNames : AddHandler(n, CheckerOf(n, Len(options) + 1))
    \/ \E n \in ConcNames :
           AddHealthDependency(n, CheckerOf(n, Len(options) + 1))
    \/ ConcurrentMapWrite
    \/ \E v \in Versions : SetVersion(v)
    \/ New
    \/ \E r \in Req :
        \/ \E k \in Kinds, v \in BOOLEAN, h \in Headers, t \in {""} \cup DepNames :
               MwEnter(r, k, v, h, t)
        \/ PrepareHTTPServe(r)
        \/ AddNotFoundRoute(r)
        \/ MwCorrelate(r)
        \/ MwUpdateContext(r)
        \/ MwNext(r)
        \/ Version(r)
        \/ NotFound(r)
        \/ DepStart(r)
        \/ \E c \in AllCheckers : \E v \in Returns(c) : DepCheck(r, v)
        \/ DepLog(r)
        \/ DepEncode(r)
        \/ HealthStart(r)
        \/ \E n \in DepNames : HealthSpawn(r, n)
        \/ \E n \in DepNames : \E c \in AllCheckers : \E v \in Returns(c) :
               CheckService(r, n, v)
        \/ \E n \in DepNames : HealthCollect(r, n)
        \/ HealthCollectEmpty(r)
        \/ HealthLog(r)
        \/ HealthEncode(r)
        \/ MwRecover(r)
        \/ MwLog(r)
        \/ MwObserveDuration(r)
        \/ MwObserveSize(r)
        \/ Finish(r)
        \/ Recycle(r)

SpecCfg == InitCfg /\ [][NextCfg]_vars

\* Calls of Start, Stop and Uptime, and /health requests beside them.
NextLife ==
    \/ StartPrepare
    \/ StartAddRoute
    \/ StartLock
    \/ StartWrite
    \/ StartUnlock
    \/ \E err \in {"nil", "ErrServerClosed"} \cup ListenErrors : StartListen(err)
    \/ \E err \in {"ErrServerClosed"} \cup ServeErrors : StartServe(err)
    \/ StopLock
    \/ StopWrite
    \/ StopUnlock
    \/ \E lnerr \in {"nil"} \cup CloseErrors : StopShutdownClose(lnerr)
    \/ \E err \in {"nil"} \cup ShutdownErrors : StopShutdown(err)
    \/ \E t \in {0, 1} : UptimeIsZero(t)
    \/ \E u \in {0, 1} : UptimeSince(u)
    \/ \E r \in Req :
        \/ \E k \in Kinds, v \in BOOLEAN, h \in Headers, t \in {""} \cup DepNames :
               MwEnter(r, k, v, h, t)
        \/ PrepareHTTPServe(r)
        \/ AddNotFoundRoute(r)
        \/ MwCorrelate(r)
        \/ MwUpdateContext(r)
        \/ MwNext(r)
        \/ HealthStart(r)
        \/ HealthCollectEmpty(r)
        \/ HealthLog(r)
        \/ MwRecover(r)
        \/ MwLog(r)
        \/ MwObserveDuration(r)
        \/ MwObserveSize(r)
        \/ Finish(r)
        \/ Recycle(r)

SpecLife == InitLife /\ [][NextLife]_vars

\* Concurrent calls of Server.ServeHTTP for /ping.
NextServe ==
    \E r \in Req :
        \/ PrepareHTTPServe(r)
        \/ AddNotFoundRoute(r)
        \/ \E k \in Kinds, v \in BOOLEAN, h \in Headers, t \in {""} \cup DepNames :
               MwEnter(r, k, v, h, t)
        \/ MwCorrelate(r)
        \/ MwUpdateContext(r)
        \/ MwNext(r)
        \/ Ping(r)
        \/ MwRecover(r)
        \/ MwLog(r)
        \/ MwObserveDuration(r)
        \/ MwObserveSize(r)
        \/ Finish(r)
        \/ Recycle(r)

SpecServe == InitServe /\ [][NextServe]_vars

\* The steps of requests to /ping and to unmatched paths alone.
NextCorr ==
    \/ ReadCorrelationHeader
    \/ \E fn \in Generators \ {"uuid"} : WithCustomCorrelationID(fn)
    \/ New
    \/ \E r \in Req :
        \/ \E k \in Kinds, v \in BOOLEAN, h \in Headers, t \in {""} \cup DepNames :
               MwEnter(r, k, v, h, t)
        \/ PrepareHTTPServe(r)
        \/ AddNotFoundRoute(r)
        \/ MwCorrelate(r)
        \/ MwUpdateContext(r)
        \/ MwNext(r)
        \/ Ping(r)
        \/ NotFound(r)
        \/ MwRecover(r)
        \/ MwLog(r)
        \/ MwObserveDuration(r)
        \/ MwObserveSize(r)
        \/ Finish(r)
        \/ Recycle(r)

SpecCorr == InitCorr /\ [][NextCorr]_vars

\* ====================================================================
\* Properties
\* ====================================================================

\* The dependencies of pass r whose HealthCheck returned an error.
Failed(r) == {n \in Registered : worker[r][n].err # NoErr}

\* Request r was served by the aggregate handler and its response is complete.
HealthDone(r) == kind[r] = "health" /\ pc[r] = "done"

\* Positions of a request after its inner handler has returned or panicked.
AfterInner == {"defer", "d_log", "d_duration", "d_size", "return", "done"}

\* Positions of the aggregate handler after its collecting loop.
AfterCollecting == {"h_log", "h_encode"} \cup AfterInner

\* C1: the aggregate check ends unhealthy with HTTP 500 exactly when at least
\* one dependency's HealthCheck returned an error, and otherwise healthy with
\* HTTP 200, for every registry (the empty one too) and every outcome.
C1_AggregateStatus ==
    \A r \in Req :
        HealthDone(r) =>
            IF Failed(r) # {}
            THEN /\ result[r].Status = unhealthyStatus
                 /\ writer[r].sent = StatusInternalServerError
            ELSE /\ result[r].Status = healthyStatus
                 /\ writer[r].sent = StatusOK

\* A pass over two dependencies, one failed and one not, has ended with 500.
C1_Witness ==
    \E r \in Req :
        /\ HealthDone(r)
        /\ Cardinality(Registered) >= 2
        /\ Failed(r) # {}
        /\ Failed(r) # Registered
        /\ writer[r].sent = StatusInternalServerError

\* C2: when the aggregate check has finished, its map has an entry for every
\* registered name and for no other; a dependency whose check succeeded reads
\* "healthy", one whose check failed carries its own error's detail, whatever
\* the other dependencies returned.
C2_PerDependencyMap ==
    \A r \in Req :
        (kind[r] = "health" /\ pc[r] \in AfterCollecting) =>
            /\ DOMAIN result[r].Dependencies = Registered
            /\ \A n \in Registered :
                   IF worker[r][n].err = NoErr
                   THEN result[r].Dependencies[n] = HealthyEntry
                   ELSE /\ result[r].Dependencies[n] # HealthyEntry
                        /\ result[r].Dependencies[n] =
                               IF worker[r][n].err.type = "json"
                               THEN [form |-> "object",
                                     value |-> "{\"details\":\""
                                                   \o worker[r][n].err.msg \o "\"}"]
                               ELSE [form |-> "string",
                                     value |-> worker[r][n].err.msg]

\* A pass in which two dependencies failed, one with a plain error and one
\* with an error that marshals to an object, has finished.
C2_Witness ==
    \E r \in Req :
        /\ HealthDone(r)
        /\ \E a, b \in Registered :
               /\ a # b
               /\ worker[r][a].err.type = "plain"
               /\ worker[r][b].err.type = "json"
               /\ result[r].Dependencies[a].form = "string"
               /\ result[r].Dependencies[b].form = "object"

\* C3: the handler reads exactly len(registry) results, and does not log the
\* summary, write a body or return before every worker it spawned has
\* delivered its result.
C3_JoinBarrier ==
    \A r \in Req :
        kind[r] = "health" =>
            /\ received[r] <= Cardinality(Registered)
            /\ received[r] = Cardinality({n \in Registered : worker[r][n].state = "done"})
            /\ ( \/ pc[r] \in AfterCollecting
                 \/ \E i \in 1 .. Len(logs[r]) : logs[r][i].msg = "health check"
                 \/ writer[r].body > 0 )
               => /\ received[r] = Cardinality(Registered)
                  /\ \A n \in Registered : worker[r][n].state = "done"

\* The handler has left its collecting loop after reading two results.
C3_Witness ==
    \E r \in Req :
        /\ kind[r] = "health"
        /\ pc[r] = "h_log"
        /\ received[r] = 2
        /\ Cardinality(Registered) = 2

\* C4: in each pass every registered dependency's HealthCheck is invoked
\* exactly once, by the worker spawned for it, with the request's context; an
\* entry of a pass's map comes from the call made in that pass, also while
\* another pass is in flight.
C4_OneCallPerPass ==
    \A r \in Req :
        kind[r] = "health" =>
            /\ \A n \in DepNames :
                   /\ calls[r][n] = IF worker[r][n].state \in {"send", "done", "panic"} THEN 1 ELSE 0
                   /\ n \notin Registered => worker[r][n].state = "none"
                   /\ worker[r][n].state # "none" =>
                          /\ worker[r][n].name = n
                          /\ worker[r][n].checker = healthDependencies[n]
                          /\ worker[r][n].ctx = r
                   /\ n \in DOMAIN result[r].Dependencies =>
                          /\ worker[r][n].state = "done"
                          /\ (result[r].Dependencies[n] = HealthyEntry)
                                 = (worker[r][n].err = NoErr)
            /\ pc[r] \in AfterCollecting =>
                   \A n \in Registered : calls[r][n] = 1

\* Two passes in flight have both finished collecting, and the same
\* dependency failed in one and succeeded in the other.
C4_Witness ==
    \E r, q \in Req : \E n \in Registered :
        /\ r # q
        /\ kind[r] = "health" /\ pc[r] \in AfterCollecting
        /\ kind[q] = "health" /\ pc[q] \in AfterCollecting
        /\ calls[r][n] = 1 /\ calls[q][n] = 1
        /\ result[r].Dependencies[n] = HealthyEntry
        /\ result[q].Dependencies[n] # HealthyEntry

\* The dependencies of pass r whose result the handler has received.
Delivered(r) == {n \in Registered : worker[r][n].state = "done"}

\* C5: for a fixed registry and fixed outcomes the aggregate result (status,
\* HTTP status code, map) is the same for every order in which the workers
\* deliver: after any results have been merged, in whatever order, the result
\* is a function of the set of delivered results alone.
C5_OrderIndependent ==
    \A r \in Req :
        (kind[r] = "health" /\ pc[r] \notin {"idle", "mw", "mw_update", "mw_next", "h_start"}) =>
            LET failed == {n \in Delivered(r) : worker[r][n].err # NoErr} IN
            /\ result[r].Dependencies =
                   [n \in Delivered(r) |->
                       IF worker[r][n].err = NoErr THEN HealthyEntry
                       ELSE Detail(worker[r][n].err)]
            /\ result[r].Status =
                   IF failed # {} THEN unhealthyStatus ELSE healthyStatus
            /\ writer[r].StatusCode =
                   IF failed # {} THEN StatusInternalServerError ELSE StatusOK
            /\ pc[r] = "done" => writer[r].sent = writer[r].StatusCode

\* Two workers had their results ready side by side, one an error that
\* cannot be marshalled and one a success, and both have been merged.
C5_Witness ==
    \E r \in Req :
        /\ kind[r] = "health"
        /\ pc[r] \in AfterCollecting
        /\ \E a, b \in Delivered(r) :
               /\ worker[r][a].err.type = "badjson"
               /\ worker[r][b].err = NoErr
        /\ result[r].Status = unhealthyStatus
        /\ received[r] = 2

\* The calls of WriteHeader(500) made on the writer of request r.
Calls500(r) ==
    {i \in 1 .. Len(writer[r].trace) :
        writer[r].trace[i] = [op |-> "WriteHeader", arg |-> StatusInternalServerError]}

\* C6: during one aggregate check the handler of /health calls
\* WriteHeader(500) at most once, however many dependencies fail: it has
\* made the call exactly when a failed result has been read, as the first
\* WriteHeader call on the writer, and that turned the aggregate unhealthy.
C6_WriteHeaderOnce ==
    \A r \in Req :
        kind[r] = "health" =>
            /\ Cardinality(Calls500(r)) <= 1
            /\ Cardinality(Calls500(r)) =
                   IF Failed(r) \cap Delivered(r) # {} THEN 1 ELSE 0
            /\ Calls500(r) # {} =>
                   /\ result[r].Status = unhealthyStatus
                   /\ \A i \in 1 .. Len(writer[r].trace) :
                          writer[r].trace[i].op = "WriteHeader" => i \in Calls500(r)

\* The handler of /health has read two failed results and has called
\* WriteHeader(500) once.
C6_Witness ==
    \E r \in Req :
        /\ kind[r] = "health"
        /\ Cardinality(Failed(r) \cap Delivered(r)) = 2
        /\ Cardinality(Calls500(r)) = 1
        /\ writer[r].sent = StatusInternalServerError

\* The calls the inner handler made on the writer: all of them, but for the
\* WriteHeader(500) of the deferred function after a panic.
HandlerTrace(r) ==
    IF panicking[r] /\ pc[r] \in {"d_log", "d_duration", "d_size", "return", "done"}
    THEN SubSeq(writer[r].trace, 1, Len(writer[r].trace) - 1)
    ELSE writer[r].trace

\* The status line a sequence of calls puts on the wire, 0 when none.
Flushed(tr) ==
    IF tr = <<>> THEN 0
    ELSE IF tr[1].op = "WriteHeader" THEN tr[1].arg ELSE StatusOK

\* C7 as stated: whenever a handler panics the panic does not leave the
\* middleware, the client gets exactly one response, its status is 500, and
\* a request made afterwards is served.
C7_PanicGives500 ==
    \A r \in Req :
        pc[r] = "done" =>
            /\ ~escaped[r]
            /\ responses[r] = 1
            /\ panicking[r] => writer[r].sent = StatusInternalServerError

\* C7, amended: whenever a handler panics the panic does not leave the
\* middleware and the client gets exactly one response; its status is 500 when
\* the handler had sent no status line before it panicked, and the status the
\* handler had sent otherwise; a request made afterwards gets its one
\* response with the status its own handler chose.
C7_PanicContained ==
    \A r \in Req :
        pc[r] = "done" =>
            /\ ~escaped[r]
            /\ responses[r] = 1
            /\ panicking[r] =>
                   writer[r].sent =
                       IF Flushed(HandlerTrace(r)) = 0
                       THEN StatusInternalServerError
                       ELSE Flushed(HandlerTrace(r))
            /\ (afterPanic[r] /\ ~panicking[r] /\ kind[r] = "user") =>
                   writer[r].sent =
                       IF Flushed(HandlerTrace(r)) = 0 THEN StatusOK
                       ELSE Flushed(HandlerTrace(r))

\* A handler that had written nothing panicked and its client got 500; the
\* server has recovered a panic before this request as well.
C7_Witness ==
    \E r \in Req :
        /\ pc[r] = "done"
        /\ kind[r] = "user"
        /\ panicking[r]
        /\ afterPanic[r]
        /\ HandlerTrace(r) = <<>>
        /\ responses[r] = 1
        /\ writer[r].sent = StatusInternalServerError

\* The entries of request r's log with message m.
LogLines(r, m) == {i \in 1 .. Len(logs[r]) : logs[r][i].msg = m}

\* The error entries of request r's log.
ErrorLines(r) == {i \in 1 .. Len(logs[r]) : logs[r][i].level = "error"}

\* The observations of metric m made for request r.
Observed(r, m) == {i \in 1 .. Len(metrics[r]) : metrics[r][i].metric = m}

\* The sum of the lengths of the Write calls in a sequence of calls.
RECURSIVE SumWrites(_)
SumWrites(tr) ==
    IF tr = <<>> THEN 0
    ELSE (IF tr[1].op = "Write" THEN tr[1].arg ELSE 0) + SumWrites(Tail(tr))

\* C8: the status code and the byte count in the "request complete" line and
\* in both metrics are the status code sent to the client and the sum of the
\* lengths of all Write calls, after a panic too (the status is forced to 500
\* only when none had been sent).
C8_ReportedIsSent ==
    \A r \in Req :
        pc[r] = "done" =>
            /\ \A i \in LogLines(r, "request complete") :
                   /\ logs[r][i].status_code = writer[r].sent
                   /\ logs[r][i].response_bytes = SumWrites(writer[r].trace)
            /\ \A i \in Observed(r, "duration") \cup Observed(r, "size") :
                   /\ metrics[r][i].code = writer[r].sent
                   /\ metrics[r][i].bytes = SumWrites(writer[r].trace)

\* A handler wrote a body, so that 200 was sent, and panicked: the line and
\* the metrics say 500.
C8_Witness ==
    \E r \in Req :
        /\ pc[r] = "done"
        /\ panicking[r]
        /\ writer[r].body > 0
        /\ writer[r].sent = StatusOK
        /\ \E i \in LogLines(r, "request complete") :
               logs[r][i].status_code = StatusInternalServerError
        /\ \E i \in Observed(r, "size") :
               metrics[r][i].code = StatusInternalServerError

\* C9: every request that entered the middleware has, when the middleware
\* returns, exactly one "request complete" line, one duration observation and
\* one size observation, the two with the same method, path and status code;
\* it has one error entry if its handler panicked and none otherwise, and
\* never more of any of them.
C9_ExactlyOnce ==
    \A r \in Req :
        /\ Cardinality(LogLines(r, "request complete")) <= 1
        /\ Cardinality(Observed(r, "duration")) <= 1
        /\ Cardinality(Observed(r, "size")) <= 1
        /\ Cardinality(ErrorLines(r)) <= 1
        /\ ErrorLines(r) # {} => panicking[r]
        /\ pc[r] \in {"return", "done"} =>
               /\ Cardinality(LogLines(r, "request complete")) = 1
               /\ Cardinality(Observed(r, "duration")) = 1
               /\ Cardinality(Observed(r, "size")) = 1
               /\ \A i \in Observed(r, "duration") : \A j \in Observed(r, "size") :
                      /\ metrics[r][i].method = metrics[r][j].method
                      /\ metrics[r][i].path = metrics[r][j].path
                      /\ metrics[r][i].code = metrics[r][j].code
               /\ Cardinality(ErrorLines(r)) = IF panicking[r] THEN 1 ELSE 0

\* The middleware has returned for a handler that panicked after a write:
\* one line, one error entry, one observation of each metric.
C9_Witness ==
    \E r \in Req :
        /\ pc[r] = "return"
        /\ panicking[r]
        /\ writer[r].Size > 0
        /\ Cardinality(LogLines(r, "request complete")) = 1
        /\ Cardinality(ErrorLines(r)) = 1
        /\ Cardinality(Observed(r, "duration")) = 1
        /\ Cardinality(Observed(r, "size")) = 1

\* Positions at which the inner handler of a request has not started or is
\* running.
BeforeOrInside ==
    {"idle", "mw", "mw_update", "mw_next", "user", "ping", "version", "notfound",
     "h_start", "h_spawn", "h_collect", "h_log", "h_encode",
     "v_start", "v_spawn", "v_hand", "v_collect", "v_log", "v_encode",
     "dep_start", "dep_check", "dep_log", "dep_encode"}

\* C10: the "request complete" line and the two observations of a request
\* are made after its inner handler has returned or panicked: none of them
\* exists while the handler has not started or is running, the observations
\* come after the line, and no worker of the handler is still at work.
C10_EmittedAfterHandler ==
    \A r \in Req :
        /\ pc[r] \in BeforeOrInside \cup {"defer", "d_log"} =>
               /\ LogLines(r, "request complete") = {}
               /\ Observed(r, "duration") = {}
               /\ Observed(r, "size") = {}
        /\ pc[r] = "d_duration" =>
               /\ LogLines(r, "request complete") # {}
               /\ Observed(r, "duration") = {}
               /\ Observed(r, "size") = {}
        /\ pc[r] = "d_size" => Observed(r, "size") = {}
        /\ LogLines(r, "request complete") # {} =>
               \A n \in DepNames : worker[r][n].state \in {"none", "done"}

\* The line is written and the duration observed for an aggregate check over
\* two dependencies, all of whose workers have ended.
C10_Witness ==
    \E r \in Req :
        /\ pc[r] = "d_size"
        /\ kind[r] = "health"
        /\ received[r] = 2
        /\ LogLines(r, "request complete") # {}
        /\ Observed(r, "duration") # {}

\* Positions of a request from the call of its inner handler on.
Handled ==
    {"user", "ping", "version", "notfound", "h_start", "h_spawn", "h_collect", "h_log",
     "h_encode", "v_start", "v_spawn", "v_hand", "v_collect", "v_log",
     "v_encode", "dep_start", "dep_check", "dep_log", "dep_encode"} \cup AfterInner

\* The response's headers, as the client got them, hold h with value v.
Carries(r, h, v) ==
    /\ h \in DOMAIN writer[r].wire
    /\ writer[r].wire[h] = <<v>>

\* C11: the Correlation-ID header is on the wrapped writer before the inner
\* handler is invoked, so that the status line of every response, the inner
\* handler's or the 500 of a recovered panic, goes out with the ID.
C11_HeaderBeforeHandler ==
    \A r \in Req :
        pc[r] \in Handled =>
            /\ correlationID[r] # NoID
            /\ "Correlation-ID" \in DOMAIN writer[r].header
            /\ writer[r].header["Correlation-ID"] = <<correlationID[r]>>
            /\ writer[r].sent # 0 => Carries(r, "Correlation-ID", correlationID[r])

\* A handler that had written nothing panicked; the 500 the deferred
\* function sent carries the ID.
C11_Witness ==
    \E r \in Req :
        /\ pc[r] = "d_log"
        /\ panicking[r]
        /\ writer[r].trace = <<[op |-> "WriteHeader", arg |-> StatusInternalServerError]>>
        /\ Carries(r, "Correlation-ID", correlationID[r])

\* C12: with ReadCorrelationHeader, a request that has a Correlation-ID
\* header gets a response whose Correlation-ID header has that value, not the
\* generator's.
C12_HeaderAdopted ==
    \A r \in Req :
        (pc[r] = "done" /\ readCorrelationHeader /\ inbound[r] # NoID) =>
            Carries(r, "Correlation-ID", inbound[r])

\* With ReadCorrelationHeader, a request with the header was answered with
\* an ID the default generator made.
C12_Witness ==
    \E r \in Req :
        /\ pc[r] = "done"
        /\ readCorrelationHeader
        /\ inbound[r] = HeaderID
        /\ newCorrelationID = "uuid"
        /\ "Correlation-ID" \in DOMAIN writer[r].wire
        /\ HeaderGet(writer[r].wire, "Correlation-ID").src = "uuid"

\* C13: without ReadCorrelationHeader the response's Correlation-ID is the
\* value the configured generator returned (the custom one when set),
\* whether or not the request has a Correlation-ID header.
C13_GeneratorWhenDisabled ==
    \A r \in Req :
        (pc[r] \in Handled /\ ~readCorrelationHeader) =>
            /\ correlationID[r] =
                   IF newCorrelationID = "custom" THEN CustomID
                   ELSE [src |-> "uuid", n |-> correlationID[r].n]
            /\ correlationID[r].src = "uuid" => correlationID[r].n \in 1 .. issued
            /\ writer[r].header["Correlation-ID"] = <<correlationID[r]>>
            /\ pc[r] = "done" => Carries(r, "Correlation-ID", correlationID[r])

\* Without ReadCorrelationHeader, a request with the header was answered
\* with the custom generator's ID.
C13_Witness ==
    \E r \in Req :
        /\ pc[r] = "done"
        /\ ~readCorrelationHeader
        /\ inbound[r] = HeaderID
        /\ newCorrelationID = "custom"
        /\ Carries(r, "Correlation-ID", CustomID)

\* C14: every response carries a Correlation-ID header: those of the fixed
\* endpoints, of user handlers, of paths no route matches (404) and of
\* handlers that panicked (500).
C14_EveryResponseCarriesID ==
    \A r \in Req :
        (pc[r] = "done" /\ responses[r] = 1) =>
            /\ "Correlation-ID" \in DOMAIN writer[r].wire
            /\ HeaderGet(writer[r].wire, "Correlation-ID") # NoID

\* A path no route matches was answered 404, with the header.
C14_Witness ==
    \E r \in Req :
        /\ pc[r] = "done"
        /\ kind[r] = "notfound"
        /\ writer[r].sent = StatusNotFound
        /\ "Correlation-ID" \in DOMAIN writer[r].wire

\* C15: every log entry written for a request carries that request's
\* correlation ID and no other: the one of no other and of no earlier request.
C15_OwnIDOnly ==
    \A r \in Req :
        \A i \in 1 .. Len(logs[r]) : logs[r][i].ids = <<correlationID[r]>>

\* The "request complete" line of a second request carries the ID of the
\* first one too.
C15_Witness ==
    \E r \in Req :
        \E i \in LogLines(r, "request complete") :
            /\ Len(logs[r][i].ids) = 2
            /\ logs[r][i].ids[1] # correlationID[r]
            /\ logs[r][i].ids[2] = correlationID[r]

\* C16: a failure of a dependency check during an aggregate check, an error
\* returned or a panic raised in HealthCheck while it runs in its worker,
\* stays in its request: the server goes on, every request in flight gets its
\* response.
C16_FailureContained ==
    \A r \in Req :
        /\ pc[r] # "crashed"
        /\ \A n \in DepNames : worker[r][n].state # "panic"

\* HealthCheck panicked in the worker of an aggregate check and the process
\* is gone.
C16_Witness ==
    \E r \in Req :
        /\ kind[r] = "health"
        /\ pc[r] = "crashed"
        /\ \E n \in Registered : worker[r][n].state = "panic"
        /\ responses[r] = 0

\* Request r asks for /health/{name} with a name that is (not) registered.
DepRequest(r, registered) ==
    /\ kind[r] = "dependency"
    /\ (target[r] \in Registered) = registered

\* C17: /health/{name} for a name that is not in the registry is answered
\* 404 with content type text/plain; charset=utf-8 and the body "404 page not
\* found" (and the line feed http.Error ends it with), with and without the
\* verbose flag; no checker is invoked and no JSON is written.
C17_UnknownDependency ==
    \A r \in Req :
        DepRequest(r, FALSE) =>
            /\ \A n \in DepNames : calls[r][n] = 0 /\ worker[r][n] = NoWorker
            /\ result[r] = NoResult
            /\ LogLines(r, "health check") = {}
            /\ \A i \in 1 .. Len(writer[r].content) : writer[r].content[i].form = "text"
            /\ pc[r] = "done" =>
                   /\ writer[r].sent = StatusNotFound
                   /\ Carries(r, "Content-Type", "text/plain; charset=utf-8")
                   /\ writer[r].content =
                          <<[form |-> "text", value |-> "404 page not found\n"]>>
                   /\ writer[r].body = 19

\* A verbose request for a name whose route is in the router while the
\* registry has no entry for it was answered 404 by the handler of the name.
C17_Witness ==
    \E r \in Req :
        /\ DepRequest(r, FALSE)
        /\ matched[r]
        /\ verbose[r]
        /\ pc[r] = "done"
        /\ writer[r].sent = StatusNotFound
        /\ writer[r].body = 19

\* C18: /health/{name} for a registered name invokes the HealthCheck of that
\* dependency alone, once, on the request's own goroutine (no worker is
\* started), and answers 200 when it returns no error and 500 when it returns
\* one.
C18_OneCheckerOnce ==
    \A r \in Req :
        DepRequest(r, TRUE) =>
            /\ \A n \in DepNames : worker[r][n] = NoWorker
            /\ \A n \in DepNames \ {target[r]} : calls[r][n] = 0
            /\ calls[r][target[r]] =
                   IF pc[r] \in {"dep_log", "dep_encode"} \cup AfterInner THEN 1 ELSE 0
            /\ (pc[r] = "done" /\ ~panicking[r]) =>
                   writer[r].sent =
                       IF depErr[r] = NoErr THEN StatusOK ELSE StatusInternalServerError

\* With two names registered, the check of one was asked for; it returned an
\* error and the answer was 500.
C18_Witness ==
    \E r \in Req :
        /\ DepRequest(r, TRUE)
        /\ Cardinality(Registered) = 2
        /\ pc[r] = "done"
        /\ depErr[r] # NoErr
        /\ calls[r][target[r]] = 1
        /\ writer[r].sent = StatusInternalServerError

\* The status a health request ends with, by the outcome of its checks.
OutcomeStatus(r) ==
    IF kind[r] = "health"
    THEN (IF Failed(r) # {} THEN StatusInternalServerError ELSE StatusOK)
    ELSE (IF depErr[r] # NoErr THEN StatusInternalServerError ELSE StatusOK)

\* C19: /health and /health/{name} of a registered name write a body exactly
\* when the verbose flag is present; without it the body is empty, and the
\* status code and the JSON content type are those the outcome of the checks
\* gives with it.
C19_BodyIffVerbose ==
    \A r \in Req :
        ((kind[r] = "health" \/ DepRequest(r, TRUE)) /\ ~panicking[r]) =>
            /\ ~verbose[r] => writer[r].body = 0 /\ writer[r].content = <<>>
            /\ pc[r] = "done" =>
                   /\ (writer[r].body > 0) = verbose[r]
                   /\ Len(writer[r].content) = IF verbose[r] THEN 1 ELSE 0
                   /\ writer[r].sent = OutcomeStatus(r)
                   /\ Carries(r, "Content-Type", "application/json")

\* A request for one dependency without the verbose flag, whose check
\* failed, was answered 500 with the JSON content type and no body.
C19_Witness ==
    \E r \in Req :
        /\ DepRequest(r, TRUE)
        /\ ~verbose[r]
        /\ pc[r] = "done"
        /\ depErr[r] # NoErr
        /\ writer[r].sent = StatusInternalServerError
        /\ writer[r].body = 0
        /\ Carries(r, "Content-Type", "application/json")

\* The detail the policy gives an error: its JSON form when marshalling
\* succeeds with something other than {}, else its message.
PolicyDetail(e) ==
    IF Marshal(e).ok /\ Marshal(e).data # EmptyObject
    THEN [form |-> "object", value |-> Marshal(e).data]
    ELSE [form |-> "string", value |-> e.msg]

\* C20: the detail reported for an error a dependency returned is the
\* error's JSON form when marshalling it succeeds and gives something other
\* than {}, and the error's message otherwise; the aggregate handler and the
\* handler of one dependency report the same detail for the same error, in
\* the map and in the body.
C20_DetailPolicy ==
    \A r \in Req :
        /\ kind[r] = "health" =>
               \A n \in Failed(r) \cap Delivered(r) :
                   result[r].Dependencies[n] = PolicyDetail(worker[r][n].err)
        /\ (DepRequest(r, TRUE) /\ pc[r] \in {"dep_log", "dep_encode"} \cup AfterInner
                /\ depErr[r] # NoErr) =>
               /\ result[r].Dependencies[target[r]] = PolicyDetail(depErr[r])
               /\ (pc[r] = "done" /\ verbose[r]) =>
                      writer[r].content =
                          <<[form |-> PolicyDetail(depErr[r]).form,
                             value |-> (IF PolicyDetail(depErr[r]).form = "string"
                                        THEN Quote(depErr[r].msg)
                                        ELSE Marshal(depErr[r]).data) \o "\n"]>>

\* A verbose request for one dependency whose error has a JSON form was
\* answered with that object.
C20_Witness ==
    \E r \in Req :
        /\ DepRequest(r, TRUE)
        /\ verbose[r]
        /\ pc[r] = "done"
        /\ depErr[r].type = "json"
        /\ writer[r].content[1].form = "object"
        /\ writer[r].content[1].value =
               "{\"details\":\"" \o depErr[r].msg \o "\"}\n"

\* The positions of the AddHealthDependency options for name n among the
\* options New applied.
Registrations(n) ==
    {i \in 1 .. Len(options) :
        options[i].opt = "AddHealthDependency" /\ options[i].name = n}

\* The checker of the last AddHealthDependency option for name n.
LastChecker(n) ==
    options[CHOOSE i \in Registrations(n) : \A j \in Registrations(n) : j <= i].arg

\* C21: after AddHealthDependency was applied more than once with one name
\* the registry has one entry for the name, bound to the checker registered
\* last; the checker a handler of /health or of /health/{name} takes from the
\* registry is that one, and the checker it invokes is the one it took; New
\* returns as for any other options.
C21_LastRegistrationWins ==
    /\ [](/\ Registered = {n \in DepNames : Registrations(n) # {}}
          /\ \A n \in Registered : healthDependencies[n] = LastChecker(n))
    /\ [][\A r \in Req :
            /\ \A n \in DepNames :
                   (worker'[r][n].checker # worker[r][n].checker
                        /\ worker'[r][n].checker # "") =>
                       /\ n \in Registered
                       /\ worker'[r][n].checker = LastChecker(n)
            /\ (depChecker'[r] # depChecker[r] /\ depChecker'[r] # "") =>
                   /\ target[r] \in Registered
                   /\ depChecker'[r] = LastChecker(target[r])
            /\ (invoked'[r] # invoked[r] /\ invoked'[r] # {}) =>
                   invoked'[r] \ invoked[r] \subseteq
                       {depChecker[r]} \cup {worker[r][n].checker : n \in DepNames}]_vars

\* Two options registered the name "db"; New returned, and a request to
\* /health/db was answered by the second checker.
C21_Witness ==
    \E r \in Req :
        /\ constructed
        /\ Registrations("db") = {1, 2}
        /\ DepRequest(r, TRUE)
        /\ target[r] = "db"
        /\ pc[r] = "done"
        /\ invoked[r] = {CheckerOf("db", 2)}

\* C23, as stated: requests to /health and /health/{name}, in any order,
\* leave the registry as it is: it changes only while New applies an
\* AddHealthDependency option, before any request is served.
C23_RegistryReadOnly ==
    [][healthDependencies' # healthDependencies =>
          /\ ~constructed
          /\ ~constructed'
          /\ \A r \in Req : pc[r] = "idle"
          /\ issued = 0
          /\ Len(options') = Len(options) + 1
          /\ options'[Len(options')].opt = "AddHealthDependency"]_vars

\* New has returned and a /health handler is ranging over the registry while
\* an AddHealthDependency option, applied to the server by its caller, has
\* added its route and is about to write the map.
C23_Witness ==
    \E r \in Req :
        /\ constructed
        /\ pending.opt = "AddHealthDependency"
        /\ kind[r] = "health"
        /\ pc[r] = "h_spawn"
        /\ r \in MapReaders

\* The ObserveHealth calls made for request r with the name n.
HealthObserved(r, n) ==
    {i \in Observed(r, "health") : metrics[r][i].name = n}

\* C25: in every aggregate check each completed dependency check is
\* reported by one ObserveHealth(name, healthy) call, healthy being true
\* exactly when the check returned no error.
C25_EachCheckObserved ==
    \A r \in Req :
        kind[r] \in {"health", "healthRecorder"} =>
            \A n \in Delivered(r) :
                /\ Cardinality(HealthObserved(r, n)) = 1
                /\ \A i \in HealthObserved(r, n) :
                       metrics[r][i].healthy = (worker[r][n].err = NoErr)

\* An aggregate check of the handler /health is routed to ended, with two
\* dependencies checked, and no ObserveHealth call was made.
C25_Witness ==
    \E r \in Req :
        /\ kind[r] = "health"
        /\ pc[r] = "done"
        /\ Cardinality(Delivered(r)) = 2
        /\ Observed(r, "health") = {}
        /\ Observed(r, "duration") # {}

\* Request r is one to /health or to /health/{name} of a registered name.
HealthRequest(r) == kind[r] \in {"health", "healthRecorder"} \/ DepRequest(r, TRUE)

\* Positions of a health handler after its log statement.
AfterHealthLog == {"h_encode", "v_encode", "dep_encode"} \cup AfterInner

\* C26: a request to /health, or to /health/{name} of a registered name,
\* writes one health summary to the logger of its context: none before all
\* results are known, one from then on whether or not the verbose flag is
\* present, and the body is written after it.
C26_OneSummary ==
    \A r \in Req :
        HealthRequest(r) =>
            /\ Cardinality(LogLines(r, "health check")) =
                   IF pc[r] \in AfterHealthLog /\ ~panicking[r] THEN 1 ELSE 0
            /\ LogLines(r, "health check") # {} =>
                   IF kind[r] = "dependency"
                   THEN calls[r][target[r]] = 1
                   ELSE Delivered(r) = Registered
            /\ LogLines(r, "health check") = {} => writer[r].body = 0
            /\ \A i \in LogLines(r, "health check") : logs[r][i].ids = ctxLogger[r]

\* A /health request without the verbose flag, over two dependencies, has
\* ended with one summary logged and no body.
C26_Witness ==
    \E r \in Req :
        /\ kind[r] = "health"
        /\ ~verbose[r]
        /\ Cardinality(Registered) = 2
        /\ pc[r] = "done"
        /\ Cardinality(LogLines(r, "health check")) = 1
        /\ writer[r].body = 0

\* C27: the response writer of a request is used by the request's own
\* goroutine alone: a step that changes it is a step of the handler or of
\* the middleware (never the step in which a worker runs HealthCheck), and
\* once the request is complete nothing changes it.
C27_WriterOwned ==
    [][\A r \in Req :
          (writer'[r] # writer[r] /\ pc'[r] # "idle") =>
              /\ pc[r] \notin {"done", "crashed"}
              /\ pc'[r] # pc[r] \/ received'[r] # received[r] \/ ops'[r] # ops[r]
              /\ calls'[r] # calls[r] => kind[r] = "dependency"]_vars

\* A worker's HealthCheck has returned an error and waits to deliver it;
\* the writer holds the handler's Content-Type header and has had no call.
C27_Witness ==
    \E r \in Req : \E n \in Registered :
        /\ kind[r] = "health"
        /\ worker[r][n].state = "send"
        /\ worker[r][n].err # NoErr
        /\ writer[r].trace = <<>>
        /\ "Content-Type" \in DOMAIN writer[r].header

\* The version the options of New configured: the argument of the last
\* SetVersion option with a non-empty string, "" when there is none.
ConfiguredVersion ==
    LET set == {i \in 1 .. Len(options) :
                   options[i].opt = "SetVersion" /\ options[i].arg # ""}
    IN  IF set = {} THEN ""
        ELSE options[CHOOSE i \in set : \A j \in set : j <= i].arg

\* C29: GET /version answers 200 with the configured version when a
\* non-empty one was set, and with "unversioned" otherwise; SetVersion("")
\* sets nothing.  The configured version is the one of the options applied
\* when the handler writes.
C29_VersionOrDefault ==
    /\ [](version = ConfiguredVersion)
    /\ [][\A r \in Req :
            (pc[r] = "version" /\ pc'[r] = "defer") =>
                /\ writer'[r].sent = StatusOK
                /\ writer'[r].content =
                       <<[form |-> "text",
                          value |-> IF ConfiguredVersion = "" THEN "unversioned"
                                    ELSE ConfiguredVersion]>>]_vars
    /\ [](\A r \in Req :
            (kind[r] = "version" /\ pc[r] = "done") =>
                /\ writer[r].sent = StatusOK
                /\ Len(writer[r].content) = 1
                /\ writer[r].content[1].value # "")

\* New was given SetVersion("") alone and /version answered "unversioned".
C29_Witness ==
    \E r \in Req :
        /\ options = <<SetVersionOption("")>>
        /\ kind[r] = "version"
        /\ pc[r] = "done"
        /\ writer[r].content = <<[form |-> "text", value |-> "unversioned"]>>

\* The step reads or writes s.startedAt on behalf of `by`: the write of
\* Start or of Stop, one of the two reads of a call of Uptime, or the
\* s.Uptime() with which a health handler fills its result.
Accesses(by) ==
    CASE by \in {"Start", "Stop"} -> lpc[by] = "write" /\ lpc'[by] = "unlock"
      [] by = "Uptime" -> lpc'["Uptime"] # lpc["Uptime"] \/ ret'["Uptime"] # ret["Uptime"]
      [] OTHER -> \E r \in Req : pc[r] \in {"h_start", "v_start"} /\ pc'[r] # pc[r]

\* C22, as stated: every access to startedAt, the writes of Start and Stop
\* and the reads of Uptime, from the /health handler too, is made by a call
\* that holds the server's mutex.
C22_AccessUnderMutex ==
    [][\A by \in {"Start", "Stop", "Uptime", "handler"} :
          Accesses(by) => mu = by]_vars

\* Start holds the mutex and is about to write startedAt while a call of
\* Uptime, which holds nothing, is between its two reads of the field.
C22_Witness ==
    /\ lpc["Start"] = "write"
    /\ mu = "Start"
    /\ lpc["Uptime"] = "since"

\* C28: Start returns nil when ListenAndServe ended with ErrServerClosed,
\* which it does only once the Shutdown that Stop calls has closed the
\* server, and the error of ListenAndServe in every other case; Stop returns
\* what Shutdown returned, nil when it succeeded.
C28_StartStopErrors ==
    /\ ret["Start"] # "none" =>
           /\ ret["ListenAndServe"] # "none"
           /\ ret["Start"] =
                  IF ret["ListenAndServe"] = "ErrServerClosed" THEN "nil"
                  ELSE ret["ListenAndServe"]
    /\ ret["ListenAndServe"] = "ErrServerClosed" =>
           /\ serving = "closed"
           /\ lpc["Stop"] \in {"poll", "poll_open", "poll_lnerr", "done"}
    /\ ret["Stop"] # "none" =>
           /\ ret["Shutdown"] # "none"
           /\ ret["Stop"] = ret["Shutdown"]
           /\ serving = "closed"

\* Start has returned nil after Stop shut the listening server down, and
\* Stop has returned the error of a Shutdown that ran out of time.
C28_Witness ==
    /\ ret["Start"] = "nil"
    /\ ret["ListenAndServe"] = "ErrServerClosed"
    /\ ret["Stop"] = "context deadline exceeded"
    /\ startedAt = 0

\* The workers of request r that have begun and not ended.
Live(r) == {n \in DepNames : worker[r][n].state \in {"run", "send"}}

\* The workers of request r that have not reported yet.
Unreported(r) == {n \in Registered : worker[r][n].state # "done"}

\* C24, as the code has it: the handler leaves its receive only with the
\* report of a worker, and its collecting loop only with the report of the
\* last one; the cancellation of the request's context moves neither the
\* handler nor a worker, and a worker ends its check only by the return of
\* its HealthCheck call, so a handler whose context is cancelled and whose
\* workers have not all reported is suspended still.
C24_SuspendedUntilAllReport ==
    [][\A r \in Req :
         /\ (pc[r] = "h_collect" /\ pc'[r] # pc[r]) =>
                /\ pc'[r] = "h_log"
                /\ received'[r] = Cardinality(Registered)
                /\ \A n \in Registered : worker'[r][n].state = "done"
         /\ (pc[r] = "h_collect" /\ received'[r] # received[r]) =>
                \E n \in Registered : /\ worker[r][n].state = "send"
                                      /\ worker'[r][n].state = "done"
         /\ (cancelled'[r] /\ ~cancelled[r]) =>
                /\ pc'[r] = pc[r]
                /\ worker'[r] = worker[r]
         /\ \A n \in DepNames :
                (worker[r][n].state = "run" /\ worker'[r][n].state # "run") =>
                    /\ worker'[r][n].state = "send"
                    /\ calls'[r][n] = calls[r][n] + 1]_vars

\* The context of a request is cancelled while its handler waits at the
\* receive for a worker that is still inside HealthCheck: the handler has
\* read no result and has not gone on.
C24_Witness ==
    \E r \in Req :
        /\ cancelled[r]
        /\ pc[r] = "h_collect"
        /\ received[r] = 0
        /\ Unreported(r) # {}
        /\ \E n \in Registered : worker[r][n].state = "run" /\ calls[r][n] = 0
        /\ LogLines(r, "health check") = {}

\* C24, as stated: once the request's context is cancelled, a handler at
\* its receive can go on, whether or not its workers have reported.
C24_WakesOnCancel ==
    \A r \in Req :
        (cancelled[r] /\ pc[r] = "h_collect" /\ Unreported(r) # {}) =>
            ENABLED Serve(r)

\* C30: with every HealthCheck call returning in the end, every /health
\* request that has begun is completed with every worker it started ended,
\* its result taken from the channel, and a request never has more live
\* workers than there are registered dependencies.
C30_WorkersTerminate ==
    /\ \A r \in Req : (pc[r] = "h_start") ~> (pc[r] = "done" /\ Live(r) = {})
    /\ [](\A r \in Req : /\ Cardinality(Live(r)) <= Cardinality(Registered)
                          /\ Live(r) \subseteq Registered
                          /\ pc[r] \in {"idle", "mw", "h_start"} => Live(r) = {})

\* A request is complete with the response sent and its workers ended, while
\* the worker of another request waits on its channel for its handler.
C30_Witness ==
    \E r, q \in Req :
        /\ r # q
        /\ pc[r] = "done"
        /\ responses[r] = 1
        /\ Registered # {}
        /\ \A n \in Registered : worker[r][n].state = "done"
        /\ \E n \in Registered : worker[q][n].state = "send"

\* The workers of request r whose result the handler has read.
Collected(r) == {n \in Registered : worker[r][n].state = "done"}

\* The aggregate handler of request r is in its pass, from the first
\* iteration of the collecting loop to its return.
InPass(r) == kind[r] = "health" /\ pc[r] \in {"h_collect", "h_log", "h_encode"}

\* C31: between the iterations of the collecting loop, and after it, the
\* status of the result is "unhealthy" exactly when one of the results read
\* so far carries an error, and a status that is "unhealthy" stays so until
\* the handler returns.
C31_StatusFollowsFailures ==
    /\ [](\A r \in Req :
            InPass(r) =>
                (result[r].Status = unhealthyStatus
                     <=> \E n \in Collected(r) : worker[r][n].err # NoErr))
    /\ [][\A r \in Req :
            (InPass(r) /\ result[r].Status = unhealthyStatus)
                => result'[r].Status = unhealthyStatus]_vars

\* The results of two failed checks have been read, one after the other,
\* and the status is unhealthy.
C31_Witness ==
    \E r \in Req :
        /\ InPass(r)
        /\ result[r].Status = unhealthyStatus
        /\ Cardinality({n \in Collected(r) : worker[r][n].err # NoErr}) = 2

\* The server is not running and no call can change that: Start has not
\* been called and Stop is not under way, or Stop has returned and Start is
\* not under way, or Start has returned a listen error and Stop is not
\* under way.
Stopped ==
    /\ lpc["Start"] \in {"idle", "done"}
    /\ lpc["Stop"] \in {"idle", "done"}
    /\ \/ lpc["Start"] = "idle"
       \/ lpc["Stop"] = "done"
       \/ ret["Start"] \in ListenErrors

\* C32, as stated: while the server is not running (Start not called, Stop
\* returned, or Start returned with a listen error) a call of Uptime returns
\* 0: startedAt is the zero time.
C32_ZeroWhenStopped ==
    Stopped => UptimeValue(startedAt, startedAt) = "0"

\* Stop has returned and the Start that ran beside it has returned nil, the
\* server is closed, and a call of Uptime has returned the time elapsed since
\* that Start.
C32_Witness ==
    /\ lpc["Stop"] = "done"
    /\ lpc["Start"] = "done"
    /\ ret["Start"] = "nil"
    /\ serving = "closed"
    /\ lpc["Uptime"] = "idle"
    /\ ret["Uptime"] = "elapsed"
    /\ startedAt = 1

\* Request r is for a path no registered route matches.
Unmatched(r) ==
    /\ pc[r] # "idle"
    /\ \/ kind[r] = "notfound"
       \/ kind[r] = "dependency" /\ target[r] \notin Registered

\* C33: a request for a path that no registered route matches is answered
\* 404, and the telemetry middleware runs once around it: one "request
\* complete" line, one duration and one size observation, each with status
\* 404 and with request.URL.Path as its path label.
C33_UnmatchedThroughMiddleware ==
    \A r \in Req :
        Unmatched(r) =>
            /\ Cardinality(LogLines(r, "request complete")) <= 1
            /\ Cardinality(Observed(r, "duration")) <= 1
            /\ Cardinality(Observed(r, "size")) <= 1
            /\ \A i \in 1 .. Len(metrics[r]) :
                   /\ metrics[r][i].path = RawPath(kind[r], target[r])
                   /\ metrics[r][i].code = StatusNotFound
            /\ pc[r] = "done" =>
                   /\ writer[r].sent = StatusNotFound
                   /\ responses[r] = 1
                   /\ Cardinality(LogLines(r, "request complete")) = 1
                   /\ Cardinality(Observed(r, "duration")) = 1
                   /\ Cardinality(Observed(r, "size")) = 1

\* A request for /missing was answered 404 and observed under that path.
C33_Witness ==
    \E r \in Req :
        /\ kind[r] = "notfound"
        /\ pc[r] = "done"
        /\ writer[r].sent = StatusNotFound
        /\ Len(metrics[r]) = 2
        /\ \A i \in 1 .. 2 : metrics[r][i].path = "/missing"

\* C34: with /health requests served side by side, every result a handler
\* reads from its channel is the one a worker it started itself is sending:
\* the step ends that worker, stores that worker's outcome under its name,
\* and leaves the workers and the results of every other request as they
\* were; a handler has read as many results as workers of its own have ended.
C34_OwnResultsOnly ==
    /\ [](\A r \in Req :
            kind[r] = "health" => received[r] = Cardinality(Collected(r)))
    /\ [][\A r \in Req :
            received'[r] = received[r] + 1 =>
                /\ \E n \in Registered :
                       /\ worker[r][n].state = "send"
                       /\ worker'[r][n].state = "done"
                       /\ n \in DOMAIN result'[r].Dependencies
                       /\ (result'[r].Dependencies[n] = HealthyEntry)
                              = (worker[r][n].err = NoErr)
                /\ \A q \in Req \ {r} :
                       worker'[q] = worker[q] /\ result'[q] = result[q]]_vars

\* A handler has read the result of its own worker for a dependency while
\* the worker of another request was offering a different result for the
\* same dependency on that request's channel.
C34_Witness ==
    \E r, q \in Req : \E n \in Registered :
        /\ r # q
        /\ pc[r] = "h_log"
        /\ worker[r][n].state = "done"
        /\ pc[q] = "h_collect"
        /\ worker[q][n].state = "send"
        /\ worker[q][n].err # NoErr
        /\ worker[r][n].err = NoErr
        /\ result[r].Dependencies[n] = HealthyEntry

\* C35, as stated: whatever the interleaving of concurrent ServeHTTP calls
\* (and of Start), the router never has more than one catch-all route.
C35_OneCatchAllRoute ==
    catchAll <= 1

\* Two requests have both read NotFoundHandler as nil and both added a
\* catch-all route, and both have been answered.
C35_Witness ==
    /\ catchAll = 2
    /\ notFoundHandler
    /\ \E r, q \in Req :
           /\ r # q
           /\ pc[r] = "done" /\ kind[r] = "ping" /\ writer[r].sent = StatusOK
           /\ pc[q] = "done" /\ kind[q] = "ping" /\ writer[q].sent = StatusOK

\* C36: in the handler that sends each checker to its worker over checkChan,
\* a worker that has received a checker has the one registered under the
\* name it was started with, at most one worker waits for a checker at a
\* time, and a result that was read pairs the name with what that checker
\* returned.
C36_WorkerGetsOwnChecker ==
    \A r \in Req :
        kind[r] = "healthRecorder" =>
            /\ Cardinality({n \in DepNames : worker[r][n].state = "wait"}) <= 1
            /\ \A n \in DepNames :
                   /\ worker[r][n].state # "none" => worker[r][n].name = n
                   /\ worker[r][n].state \in {"run", "send", "done"} =>
                          worker[r][n].checker = healthDependencies[n]
                   /\ worker[r][n].state \in {"send", "done"} =>
                          \/ worker[r][n].err = NoErr
                          \/ worker[r][n].err.msg = healthDependencies[n]
                   /\ n \in DOMAIN result[r].Dependencies =>
                          /\ worker[r][n].state = "done"
                          /\ IF worker[r][n].err = NoErr
                             THEN result[r].Dependencies[n] = HealthyEntry
                             ELSE result[r].Dependencies[n] =
                                      [form |-> "string",
                                       value |-> healthDependencies[n]]

\* Both workers of a pass over two dependencies have received their
\* checkers, both checks failed, and both results were read.
C36_Witness ==
    \E r \in Req :
        /\ kind[r] = "healthRecorder"
        /\ Cardinality(Registered) = 2
        /\ \A n \in Registered :
               /\ worker[r][n].state = "done"
               /\ worker[r][n].checker = healthDependencies[n]
               /\ worker[r][n].err # NoErr
               /\ n \in DOMAIN result[r].Dependencies
====
